---- MODULE Spec2Model ----
(***************************************************************************)
(* GPT-Helper: chunk builder of the patch editor (chunked_editor.py) and   *)
(* the fuzzy locator, applicability evaluator and patch applicator of the  *)
(* main window (gpt-helper.py).                                            *)
(*                                                                         *)
(* Text lines are strings; a document is the sequence of its block texts   *)
(* (a QTextDocument always holds at least one block).  Block numbers are   *)
(* 0-based as in Qt, so block bn of document doc is doc[bn + 1].           *)
(* An optional value (Python None) is <<>> and a present value v is <<v>>. *)
(***************************************************************************)
EXTENDS Integers, Sequences, FiniteSets, TLC

VARIABLES
    \* ChunkedPlainTextEdit
    patch_doc,            \* block texts of the patch editor's document
    context_before,       \* self._context_before
    debug,                \* self._debug
    chunk_count,          \* self._chunk_count
    chunk_block_spans,    \* self._chunk_block_spans : <<bn_start, bn_end>>
    chunk_pos_spans,      \* self._chunk_pos_spans   : <<start_pos, end_pos_excl>>
    chunk_file_paths,     \* self._chunk_file_paths
    chunk_context_info,   \* self._chunk_context_info: <<context_lines, first_context_block>>
    user_state,           \* block.userState() of every block of patch_doc
    last_hover_chunk,     \* self._last_hover_chunk
    recomputes,           \* where kept: _recompute_chunks has run again over the same text
    \* one run of the locator, the evaluator and the applicator on given arguments
    ev_pc,                \* the call that comes next
    ev_scorer,            \* the scoring function the locator is run with
    ev_min_score,         \* min_score
    ev_lines,             \* target_lines / lines
    ev_details,           \* details
    ev_start,             \* start_idx given to _apply_at
    ev_match,             \* match_line_num
    ev_decision,          \* the tuple _evaluate_chunk_applicability returned
    ev_new_lines,         \* the list _apply_at returned
    ev_match2,            \* match_line_num on the new lines
    ev_decision2,         \* the evaluation of the new lines
    \* MainWindow
    root_dir,             \* self.root_edit.text()
    file_text,            \* self.file_viewer.toPlainText()
    current_file,         \* self.file_viewer.property("current_file")
    hover_chunk_idx,      \* self._hover_chunk_idx
    hover_chunk_file,     \* self._hover_chunk_file
    hover_context_lines,  \* self._hover_context_lines
    hover_applicable,     \* self._hover_applicable
    hover_already_applied,\* self._hover_already_applied
    hover_apply_start_idx,\* self._hover_apply_start_idx
    hover_highlight_len,  \* self._hover_highlight_len
    timer_active,         \* self._debounce_timer.isActive()
    apply_btn_enabled,    \* self.apply_btn.isEnabled()
    \* history of the main window
    edited_since_eval,    \* the buffer text changed after the start index was computed
    rebuilt_since_eval,   \* the chunks were recomputed after the start index was computed
    apply_log,            \* the apply that has just run, if one has
    apply_request,        \* the apply request that has just been handled, if one has
    burst                 \* where kept: the edits and timeouts of the debounce timer

peVars == <<patch_doc, context_before, debug, chunk_count, chunk_block_spans,
            chunk_pos_spans, chunk_file_paths, chunk_context_info, user_state,
            last_hover_chunk, recomputes>>

evVars == <<ev_pc, ev_scorer, ev_min_score, ev_lines, ev_details, ev_start, ev_match,
            ev_decision, ev_new_lines, ev_match2, ev_decision2>>

mwVars == <<root_dir, file_text, current_file, hover_chunk_idx, hover_chunk_file,
            hover_context_lines, hover_applicable, hover_already_applied,
            hover_apply_start_idx, hover_highlight_len, timer_active,
            apply_btn_enabled, edited_since_eval, rebuilt_since_eval, apply_log,
            apply_request, burst>>

vars == <<peVars, evVars, mwVars>>

None == <<>>
Some(v) == <<v>>

\* F(v) with v evaluated before the call, as Python evaluates the arguments of a
\* call and the right-hand side of an assignment
Strict(F(_), v) == CHOOSE r \in {F(x) : x \in {v}} : TRUE

Max2(a, b) == IF a >= b THEN a ELSE b
Min2(a, b) == IF a <= b THEN a ELSE b

(***************************************************************************)
(* Strings                                                                 *)
(***************************************************************************)
\* str.startswith
StartsWith(t, p) == Len(t) >= Len(p) /\ SubSeq(t, 1, Len(p)) = p

\* t[k:] for 0 <= k
DropChars(t, k) == IF k >= Len(t) THEN "" ELSE SubSeq(t, k + 1, Len(t))

\* str.isspace of one character
IsSpaceChar(c) == c \in {" ", "\t"}

RECURSIVE LStrip(_)
LStrip(t) ==
    IF Len(t) > 0 /\ IsSpaceChar(SubSeq(t, 1, 1)) THEN LStrip(DropChars(t, 1)) ELSE t

RECURSIVE RStrip(_)
RStrip(t) ==
    IF Len(t) > 0 /\ IsSpaceChar(SubSeq(t, Len(t), Len(t)))
    THEN RStrip(SubSeq(t, 1, Len(t) - 1))
    ELSE t

\* str.strip
Strip(t) == RStrip(LStrip(t))

\* length of the first whitespace-free token of t (t has no leading whitespace)
RECURSIVE TokenLen(_)
TokenLen(t) ==
    IF Len(t) = 0 \/ IsSpaceChar(SubSeq(t, 1, 1)) THEN 0 ELSE 1 + TokenLen(DropChars(t, 1))

\* str.split(maxsplit=1): the first token, then the remainder without its
\* leading whitespace (absent when empty)
SplitMax1(t) ==
    LET s    == LStrip(t)
        n    == TokenLen(s)
        rest == LStrip(DropChars(s, n))
    IN  IF Len(s) = 0 THEN <<>>
        ELSE IF Len(rest) = 0 THEN <<SubSeq(s, 1, n)>>
        ELSE <<SubSeq(s, 1, n), rest>>

(***************************************************************************)
(* Line classifier                                                         *)
(***************************************************************************)
IsNewFileHeader(text) == StartsWith(text, "+++ ")

ParseFilepathFromHeader(text) ==
    LET parts == SplitMax1(text)
    IN  IF Len(parts) < 2 THEN ""
        ELSE IF StartsWith(parts[2], "b/") THEN DropChars(parts[2], 2)
        ELSE parts[2]

IsHunkHeader(text) == StartsWith(text, "@@")

IsAdd(text) == StartsWith(text, "+") /\ ~StartsWith(text, "+++")

IsDel(text) == StartsWith(text, "-") /\ ~StartsWith(text, "---")

IsCtx(text) == StartsWith(text, " ")

CtxHasContent(text) == StartsWith(text, " ") /\ Len(Strip(DropChars(text, 1))) > 0

(***************************************************************************)
(* Documents                                                               *)
(***************************************************************************)
\* QTextBlock.isValid for block number b of doc
IsValid(doc, b) == b >= 0 /\ b < Len(doc)

\* QTextBlock.text
BlockText(doc, b) == doc[b + 1]

\* QTextBlock.position: every earlier block and its separator
RECURSIVE BlockPosition(_, _)
BlockPosition(doc, b) ==
    IF b <= 0 THEN 0 ELSE BlockPosition(doc, b - 1) + Len(doc[b]) + 1

(***************************************************************************)
(* Chunk builder                                                           *)
(***************************************************************************)
RECURSIVE CollectLoop(_, _, _, _)
CollectLoop(doc, b, out, limit) ==
    IF ~(IsValid(doc, b) /\ Len(out) < limit) THEN out
    ELSE LET t == BlockText(doc, b)
         IN  IF IsHunkHeader(t) THEN out
             ELSE IF IsCtx(t)
                  THEN Strict(LAMBDA o : CollectLoop(doc, b - 1, o, limit),
                              IF CtxHasContent(t) THEN <<b>> \o out ELSE out)
                  ELSE out

\* the backward scan with its limit off by one
CollectPrecedingContextBlocksOneMore(doc, first_data_block, limit) ==
    CollectLoop(doc, first_data_block - 1, <<>>, limit + 1)

\* the backward scan ending at a blank context line
RECURSIVE CollectLoopStopAtBlank(_, _, _, _)
CollectLoopStopAtBlank(doc, b, out, limit) ==
    IF ~(IsValid(doc, b) /\ Len(out) < limit) THEN out
    ELSE IF CtxHasContent(BlockText(doc, b))
         THEN Strict(LAMBDA o : CollectLoopStopAtBlank(doc, b - 1, o, limit), <<b>> \o out)
    ELSE out

CollectPrecedingContextBlocksStopAtBlank(doc, first_data_block, limit) ==
    CollectLoopStopAtBlank(doc, first_data_block - 1, <<>>, limit)

\* the backward scan passing over Add lines as it passes over blank context
RECURSIVE CollectLoopOverAdds(_, _, _, _)
CollectLoopOverAdds(doc, b, out, limit) ==
    IF ~(IsValid(doc, b) /\ Len(out) < limit) THEN out
    ELSE LET t == BlockText(doc, b)
         IN  IF IsHunkHeader(t) THEN out
             ELSE IF IsCtx(t) \/ IsAdd(t)
                  THEN Strict(LAMBDA o : CollectLoopOverAdds(doc, b - 1, o, limit),
                              IF CtxHasContent(t) THEN <<b>> \o out ELSE out)
                  ELSE out

CollectPrecedingContextBlocksOverAdds(doc, first_data_block, limit) ==
    CollectLoopOverAdds(doc, first_data_block - 1, <<>>, limit)

\* block numbers of up to `limit` nonblank context blocks before first_data_block
CollectPrecedingContextBlocks(doc, first_data_block, limit) ==
    CollectLoop(doc, first_data_block - 1, <<>>, limit)

\* first block at or after cur that is not a Del line
RECURSIVE SkipDelRun(_, _)
SkipDelRun(doc, cur) ==
    IF IsValid(doc, cur) /\ IsDel(BlockText(doc, cur)) THEN SkipDelRun(doc, cur + 1) ELSE cur

\* the Add run taken to end with its first line
SkipAddRunOneLine(doc, curp) == curp

\* first block at or after curp that is not an Add line
RECURSIVE SkipAddRun(_, _)
SkipAddRun(doc, curp) ==
    IF IsValid(doc, curp) /\ IsAdd(BlockText(doc, curp)) THEN SkipAddRun(doc, curp + 1) ELSE curp

\* the context lines (marker removed) of blocks lo..hi, and the first such block
RECURSIVE ContextLinesOfSpan(_, _, _)
ContextLinesOfSpan(doc, lo, hi) ==
    IF ~(IsValid(doc, lo) /\ lo <= hi) THEN <<>>
    ELSE (IF IsCtx(BlockText(doc, lo)) THEN <<DropChars(BlockText(doc, lo), 1)>> ELSE <<>>)
         \o ContextLinesOfSpan(doc, lo + 1, hi)

RECURSIVE FirstContextBlock(_, _, _)
FirstContextBlock(doc, lo, hi) ==
    IF ~(IsValid(doc, lo) /\ lo <= hi) THEN None
    ELSE IF IsCtx(BlockText(doc, lo)) THEN Some(lo)
    ELSE FirstContextBlock(doc, lo + 1, hi)

\* the scan state before the first iteration of the loop of _recompute_chunks
ScanStart ==
    [b |-> 0, in_hunk |-> FALSE, current_filepath |-> "",
     spans |-> <<>>, paths |-> <<>>, ctx |-> <<>>]

\* a line inside a hunk that is neither Del nor Add: the scan moves on
ScanOtherLine(st) == [st EXCEPT !.b = st.b + 1]

\* a Del/Add line met inside a hunk, a Del run without Add lines made a chunk
ScanDataLineEmitsDelRun(doc, limit, st) ==
    LET b                == st.b
        cur              == SkipDelRun(doc, b)
        has_minus        == cur > b
        plus_start_block == IF has_minus THEN cur ELSE b
        has_plus         == IsValid(doc, plus_start_block)
                            /\ IsAdd(BlockText(doc, plus_start_block))
        curp             == IF has_plus THEN SkipAddRun(doc, plus_start_block + 1) ELSE cur
        context_blocks   == CollectPrecedingContextBlocks(doc, b, limit)
        chunk_start_block == IF context_blocks # <<>> THEN context_blocks[1] ELSE b
    IN  [st EXCEPT
           !.spans = Append(@, <<chunk_start_block, curp - 1>>),
           !.paths = Append(@, st.current_filepath),
           !.ctx   = Append(@, <<ContextLinesOfSpan(doc, chunk_start_block, curp - 1),
                                 FirstContextBlock(doc, chunk_start_block, curp - 1)>>),
           !.b     = curp]

\* a Del/Add line met inside a hunk
ScanDataLine(doc, limit, st) ==
    LET b                == st.b
        cur              == SkipDelRun(doc, b)
        has_minus        == cur > b
        minus_end        == cur - 1
        plus_start_block == IF has_minus THEN cur ELSE b
    IN  IF IsValid(doc, plus_start_block) /\ IsAdd(BlockText(doc, plus_start_block))
        THEN LET curp              == SkipAddRun(doc, plus_start_block + 1)
                 plus_end          == curp - 1
                 first_data_block  == IF has_minus THEN b ELSE plus_start_block
                 context_blocks    == CollectPrecedingContextBlocks(doc, first_data_block, limit)
                 chunk_start_block == IF context_blocks # <<>> THEN context_blocks[1]
                                      ELSE first_data_block
                 chunk_end_block   == plus_end
             IN  [st EXCEPT
                    !.spans = Append(@, <<chunk_start_block, chunk_end_block>>),
                    !.paths = Append(@, st.current_filepath),
                    !.ctx   = Append(@, <<ContextLinesOfSpan(doc, chunk_start_block, chunk_end_block),
                                          FirstContextBlock(doc, chunk_start_block, chunk_end_block)>>),
                    !.b     = curp]
        ELSE [st EXCEPT !.b = IF has_minus THEN minus_end + 1 ELSE b + 1]

\* one iteration of the while loop, the path of the first header kept
ScanStepFirstHeaderWins(doc, limit, st) ==
    LET t == BlockText(doc, st.b)
    IN  IF IsNewFileHeader(t)
        THEN [st EXCEPT !.current_filepath = IF st.current_filepath = ""
                                             THEN ParseFilepathFromHeader(t)
                                             ELSE st.current_filepath,
                        !.in_hunk = FALSE, !.b = st.b + 1]
        ELSE IF IsHunkHeader(t) THEN [st EXCEPT !.in_hunk = TRUE, !.b = st.b + 1]
        ELSE IF ~st.in_hunk THEN [st EXCEPT !.b = st.b + 1]
        ELSE IF IsDel(t) \/ IsAdd(t) THEN ScanDataLine(doc, limit, st)
        ELSE ScanOtherLine(st)

\* one iteration of the while loop, the scan staying on a hunk header that
\* opens a hunk
ScanStepStaysOnHunkHeader(doc, limit, st) ==
    LET t == BlockText(doc, st.b)
    IN  IF IsNewFileHeader(t)
        THEN [st EXCEPT !.current_filepath = ParseFilepathFromHeader(t),
                        !.in_hunk = FALSE, !.b = st.b + 1]
        ELSE IF IsHunkHeader(t)
        THEN [st EXCEPT !.in_hunk = TRUE, !.b = IF st.in_hunk THEN st.b + 1 ELSE st.b]
        ELSE IF ~st.in_hunk THEN [st EXCEPT !.b = st.b + 1]
        ELSE IF IsDel(t) \/ IsAdd(t) THEN ScanDataLine(doc, limit, st)
        ELSE ScanOtherLine(st)

\* one iteration of the while loop, a file header leaving the hunk open
ScanStepHeaderKeepsHunk(doc, limit, st) ==
    LET t == BlockText(doc, st.b)
    IN  IF IsNewFileHeader(t)
        THEN [st EXCEPT !.current_filepath = ParseFilepathFromHeader(t), !.b = st.b + 1]
        ELSE IF IsHunkHeader(t) THEN [st EXCEPT !.in_hunk = TRUE, !.b = st.b + 1]
        ELSE IF ~st.in_hunk THEN [st EXCEPT !.b = st.b + 1]
        ELSE IF IsDel(t) \/ IsAdd(t) THEN ScanDataLine(doc, limit, st)
        ELSE ScanOtherLine(st)

\* one iteration of the while loop of _recompute_chunks
ScanStep(doc, limit, st) ==
    LET t == BlockText(doc, st.b)
    IN  IF IsNewFileHeader(t)
        THEN [st EXCEPT !.current_filepath = ParseFilepathFromHeader(t),
                        !.in_hunk = FALSE, !.b = st.b + 1]
        ELSE IF IsHunkHeader(t) THEN [st EXCEPT !.in_hunk = TRUE, !.b = st.b + 1]
        ELSE IF ~st.in_hunk THEN [st EXCEPT !.b = st.b + 1]
        ELSE IF IsDel(t) \/ IsAdd(t) THEN ScanDataLine(doc, limit, st)
        ELSE ScanOtherLine(st)

RECURSIVE ScanLoop(_, _, _)
ScanLoop(doc, limit, st) ==
    IF IsValid(doc, st.b)
    THEN Strict(LAMBDA nx : ScanLoop(doc, limit, nx), ScanStep(doc, limit, st))
    ELSE st

\* "Mark and store position spans": the position span of one block span
PosSpan(doc, span) ==
    <<BlockPosition(doc, span[1]), BlockPosition(doc, span[2]) + Len(BlockText(doc, span[2]))>>

\* the tags marked without the reset to -1: a block in no span keeps the tag
\* it had
MarkSpansKeepsTags(doc, spans) ==
    [i \in 1..Len(doc) |->
        LET ks == {k \in 1..Len(spans) : spans[k][1] <= i - 1 /\ i - 1 <= spans[k][2]}
        IN  IF ks = {}
            THEN (IF i <= Len(user_state) THEN user_state[i] ELSE -1)
            ELSE (CHOOSE k \in ks : \A j \in ks : j <= k) - 1]

\* the tags after every span has been marked in order: a block in no span keeps
\* -1, and of the spans holding a block the one marked last stays
MarkSpans(doc, spans) ==
    [i \in 1..Len(doc) |->
        LET ks == {k \in 1..Len(spans) : spans[k][1] <= i - 1 /\ i - 1 <= spans[k][2]}
        IN  IF ks = {} THEN -1 ELSE (CHOOSE k \in ks : \A j \in ks : j <= k) - 1]

\* where kept: whether this run is one more run over the text of the run
\* before it
Recomputed(doc) == IF recomputes = None THEN None ELSE Some(doc = patch_doc)

\* _recompute_chunks without the clearing of the four lists
RecomputeChunksKeepsLists(doc) ==
    \E st \in {ScanLoop(doc, context_before, ScanStart)} :
        /\ chunk_block_spans'  = chunk_block_spans \o st.spans
        /\ chunk_file_paths'   = chunk_file_paths \o st.paths
        /\ chunk_context_info' = chunk_context_info \o st.ctx
        /\ chunk_pos_spans'    = chunk_pos_spans \o
                                     [k \in 1..Len(st.spans) |-> PosSpan(doc, st.spans[k])]
        /\ user_state'         = MarkSpans(doc, st.spans)
        /\ chunk_count'        = Len(chunk_block_spans) + Len(st.spans)
        /\ recomputes'         = Recomputed(doc)

\* _recompute_chunks on document doc: every list rebuilt from the whole text
RecomputeChunks(doc) ==
    \E st \in {ScanLoop(doc, context_before, ScanStart)} :
        /\ chunk_block_spans'  = st.spans
        /\ chunk_file_paths'   = st.paths
        /\ chunk_context_info' = st.ctx
        /\ chunk_pos_spans'    = [k \in 1..Len(st.spans) |-> PosSpan(doc, st.spans[k])]
        /\ user_state'         = MarkSpans(doc, st.spans)
        /\ chunk_count'        = Len(st.spans)
        /\ recomputes'         = Recomputed(doc)

\* get_chunk_details
RECURSIVE MarkedLinesOfSpan(_, _, _, _)
MarkedLinesOfSpan(doc, lo, hi, del) ==
    IF ~(IsValid(doc, lo) /\ lo <= hi) THEN <<>>
    ELSE LET t == BlockText(doc, lo)
         IN  (IF del /\ IsDel(t) THEN <<DropChars(t, 1)>>
              ELSE IF ~del /\ ~IsDel(t) /\ IsAdd(t) THEN <<DropChars(t, 1)>>
              ELSE <<>>)
             \o MarkedLinesOfSpan(doc, lo + 1, hi, del)

GetChunkDetails(chunk_idx) ==
    IF chunk_idx < 0 \/ chunk_idx >= Len(chunk_block_spans) THEN None
    ELSE LET span == chunk_block_spans[chunk_idx + 1]
             cl   == chunk_context_info[chunk_idx + 1][1]
         IN  Some([file_path     |-> chunk_file_paths[chunk_idx + 1],
                   context_lines |-> cl,
                   n_context     |-> Len(cl),
                   removed_lines |-> MarkedLinesOfSpan(patch_doc, span[1], span[2], TRUE),
                   added_lines   |-> MarkedLinesOfSpan(patch_doc, span[1], span[2], FALSE)])

(***************************************************************************)
(* Lists of lines and the text of the file viewer                          *)
(***************************************************************************)
\* a Python index of a slice, brought into 0..n (a negative one counts from the end)
SliceIndex(k, n) == IF k < 0 THEN Max2(0, k + n) ELSE Min2(k, n)

\* lines[lo:hi]
PySlice(lines, lo, hi) ==
    LET a == SliceIndex(lo, Len(lines))
        b == SliceIndex(hi, Len(lines))
    IN  IF a < b THEN SubSeq(lines, a + 1, b) ELSE <<>>

\* "\n".join(lines)
RECURSIVE JoinLines(_)
JoinLines(lines) ==
    IF lines = <<>> THEN ""
    ELSE IF Len(lines) = 1 THEN lines[1]
    ELSE lines[1] \o "\n" \o JoinLines(Tail(lines))

\* str.splitlines: the text cut at every line break; a line break at the very
\* end closes the last line and opens no further (empty) one
RECURSIVE SplitLoop(_, _, _, _)
SplitLoop(text, i, cur, out) ==
    IF i > Len(text) THEN (IF Len(cur) > 0 THEN Append(out, cur) ELSE out)
    ELSE IF SubSeq(text, i, i) = "\n"
         THEN Strict(LAMBDA o : SplitLoop(text, i + 1, "", o), Append(out, cur))
    ELSE Strict(LAMBDA c : SplitLoop(text, i + 1, c, out), cur \o SubSeq(text, i, i))

SplitLines(text) == SplitLoop(text, 1, "", <<>>)

(***************************************************************************)
(* The scoring function of the fuzzy locator                               *)
(***************************************************************************)
\* one row of the longest-common-subsequence table of a and b: the row of the
\* character c of a, from the row before it
RECURSIVE LcsRow(_, _, _, _, _)
LcsRow(c, b, prev, j, row) ==
    IF j > Len(b) THEN row
    ELSE Strict(LAMBDA r : LcsRow(c, b, prev, j + 1, r),
                Append(row, IF SubSeq(b, j, j) = c THEN prev[j] + 1
                            ELSE Max2(prev[j + 1], row[j])))

RECURSIVE LcsRows(_, _, _, _)
LcsRows(a, b, i, prev) ==
    IF i > Len(a) THEN prev
    ELSE Strict(LAMBDA r : LcsRows(a, b, i + 1, r),
                LcsRow(SubSeq(a, i, i), b, prev, 1, <<0>>))

\* the length of a longest common subsequence of the strings a and b
LcsLen(a, b) == LcsRows(a, b, 1, [j \in 1..(Len(b) + 1) |-> 0])[Len(b) + 1]

\* round(p / q) for p >= 0, q > 0, a tie going to the even neighbour
RoundDiv(p, q) ==
    LET d == p \div q
        r == p % q
    IN  IF 2 * r < q THEN d
        ELSE IF 2 * r > q THEN d + 1
        ELSE IF d % 2 = 0 THEN d ELSE d + 1

\* fuzz.ratio: 100 * 2 * matches / (len(a) + len(b)), rounded; 0 when a string is empty
Ratio(a, b) ==
    IF Len(a) = 0 \/ Len(b) = 0 THEN 0
    ELSE RoundDiv(200 * LcsLen(a, b), Len(a) + Len(b))

(***************************************************************************)
(* Fuzzy locator, applicability evaluator, patch applicator                *)
(***************************************************************************)
\* the default of min_score, and the value both callers pass
MinScoreDefault == 75
MinScoreUsed == 60

\* the default of window, which is also the value the evaluator passes
Window == 30

\* the scoring functions the locator is run with; the program plugs in fuzz.ratio
Score(scorer, a, b) ==
    CASE scorer = "ratio"  -> Ratio(a, b)
      [] scorer = "exact"  -> IF a = b THEN 100 ELSE 0
      [] scorer = "length" -> IF Len(a) = Len(b) THEN 100 ELSE 40

\* the windows a loop state of _find_best_match can stand at, with the scores
\* it can hold
BestStates == [i : Nat, best_score : Int, best_line_num : Int]

\* _find_best_match with the last of the best windows winning
FindBestMatchByLastWins(scorer, target_lines, query_lines, min_score) ==
    LET query_str == JoinLines(query_lines)
        num_query_lines == Len(query_lines)
        loop[st \in BestStates] ==
            IF st.i >= Len(target_lines) - num_query_lines + 1 THEN st
            ELSE LET window_lines == PySlice(target_lines, st.i, st.i + num_query_lines)
                     score        == Score(scorer, query_str, JoinLines(window_lines))
                 IN  loop[IF score >= st.best_score
                          THEN [i |-> st.i + 1, best_score |-> score,
                                best_line_num |-> st.i + 1]
                          ELSE [st EXCEPT !.i = st.i + 1]]
        best == loop[[i |-> 0, best_score |-> -1, best_line_num |-> -1]]
    IN  IF query_lines = <<>> \/ target_lines = <<>> THEN None
        ELSE IF best.best_score >= min_score THEN Some(best.best_line_num) ELSE None

\* _find_best_match with one more window, which runs past the last line
FindBestMatchByOneMoreWindow(scorer, target_lines, query_lines, min_score) ==
    LET query_str == JoinLines(query_lines)
        num_query_lines == Len(query_lines)
        loop[st \in BestStates] ==
            IF st.i >= Len(target_lines) - num_query_lines + 2 THEN st
            ELSE LET window_lines == PySlice(target_lines, st.i, st.i + num_query_lines)
                     score        == Score(scorer, query_str, JoinLines(window_lines))
                 IN  loop[IF score > st.best_score
                          THEN [i |-> st.i + 1, best_score |-> score,
                                best_line_num |-> st.i + 1]
                          ELSE [st EXCEPT !.i = st.i + 1]]
        best == loop[[i |-> 0, best_score |-> -1, best_line_num |-> -1]]
    IN  IF query_lines = <<>> \/ target_lines = <<>> THEN None
        ELSE IF best.best_score >= min_score THEN Some(best.best_line_num) ELSE None

\* _find_best_match taking only a best score above min_score
FindBestMatchByAboveThreshold(scorer, target_lines, query_lines, min_score) ==
    LET query_str == JoinLines(query_lines)
        num_query_lines == Len(query_lines)
        loop[st \in BestStates] ==
            IF st.i >= Len(target_lines) - num_query_lines + 1 THEN st
            ELSE LET window_lines == PySlice(target_lines, st.i, st.i + num_query_lines)
                     score        == Score(scorer, query_str, JoinLines(window_lines))
                 IN  loop[IF score > st.best_score
                          THEN [i |-> st.i + 1, best_score |-> score,
                                best_line_num |-> st.i + 1]
                          ELSE [st EXCEPT !.i = st.i + 1]]
        best == loop[[i |-> 0, best_score |-> -1, best_line_num |-> -1]]
    IN  IF query_lines = <<>> \/ target_lines = <<>> THEN None
        ELSE IF best.best_score > min_score THEN Some(best.best_line_num) ELSE None

\* _find_best_match: the 1-based start line of the best window, or None.
\* loop[st] is the state the for loop ends in when it stands at st.
FindBestMatchBy(scorer, target_lines, query_lines, min_score) ==
    LET query_str == JoinLines(query_lines)
        num_query_lines == Len(query_lines)
        loop[st \in BestStates] ==
            IF st.i >= Len(target_lines) - num_query_lines + 1 THEN st
            ELSE LET window_lines == PySlice(target_lines, st.i, st.i + num_query_lines)
                     score        == Score(scorer, query_str, JoinLines(window_lines))
                 IN  loop[IF score > st.best_score
                          THEN [i |-> st.i + 1, best_score |-> score,
                                best_line_num |-> st.i + 1]
                          ELSE [st EXCEPT !.i = st.i + 1]]
        best == loop[[i |-> 0, best_score |-> -1, best_line_num |-> -1]]
    IN  IF query_lines = <<>> \/ target_lines = <<>> THEN None
        ELSE IF best.best_score >= min_score THEN Some(best.best_line_num) ELSE None

FindBestMatch(target_lines, query_lines, min_score) ==
    FindBestMatchBy("ratio", target_lines, query_lines, min_score)

\* _slice_equals
SliceEquals(haystack, start, needle) ==
    IF start < 0 \/ start + Len(needle) > Len(haystack) THEN FALSE
    ELSE PySlice(haystack, start, start + Len(needle)) = needle

\* _find_exact_sequence_near searching one index less far on either side
FindExactSequenceNearNarrow(lines, seq, around, window) ==
    LET n  == Len(lines)
        m  == Len(seq)
        lo == Max2(0, around - (window - 1))
        hi == Min2(n - m, around + (window - 1))
        loop[i \in Int] ==
            IF i > hi THEN None
            ELSE IF PySlice(lines, i, i + m) = seq THEN Some(i)
            ELSE loop[i + 1]
    IN  IF m = 0 THEN Some(around) ELSE loop[lo]

\* lo = max(0, around - window)
SearchLo(around, window) == Max2(0, around - window)

\* hi without the bound n - m
SearchHiUnclamped(n, m, around, window) == around + window

\* hi = min(n - m, around + window)
SearchHi(n, m, around, window) == Min2(n - m, around + window)

\* _find_exact_sequence_near: the lowest matching index in the window, or None.
\* loop[i] is what the for loop returns when it stands at index i.
FindExactSequenceNear(lines, seq, around, window) ==
    LET n  == Len(lines)
        m  == Len(seq)
        lo == SearchLo(around, window)
        hi == SearchHi(n, m, around, window)
        loop[i \in Int] ==
            IF i > hi THEN None
            ELSE IF PySlice(lines, i, i + m) = seq THEN Some(i)
            ELSE loop[i + 1]
    IN  IF m = 0 THEN Some(around) ELSE loop[lo]

\* the 0-based indices of lines that the slices lines[i:i + m] of the for loop
\* of _find_exact_sequence_near address, up to the index it returns at
FindExactSequenceNearReads(lines, seq, around, window) ==
    LET n     == Len(lines)
        m     == Len(seq)
        lo    == SearchLo(around, window)
        hi    == SearchHi(n, m, around, window)
        found == FindExactSequenceNear(lines, seq, around, window)
        last  == IF found = None THEN hi ELSE found[1]
    IN  IF m = 0 THEN {} ELSE UNION {i..(i + m - 1) : i \in lo..last}

\* _apply_at leaving the last removed line in place
ApplyAtKeepsLine(lines, start_idx, removed, added) ==
    IF removed # <<>>
    THEN PySlice(lines, 0, start_idx) \o added
         \o PySlice(lines, start_idx + Len(removed) - 1, Len(lines))
    ELSE PySlice(lines, 0, start_idx) \o added \o PySlice(lines, start_idx, Len(lines))

\* _apply_at
ApplyAt(lines, start_idx, removed, added) ==
    IF removed # <<>>
    THEN PySlice(lines, 0, start_idx) \o added
         \o PySlice(lines, start_idx + Len(removed), Len(lines))
    ELSE PySlice(lines, 0, start_idx) \o added \o PySlice(lines, start_idx, Len(lines))

Decision(applicable, already_applied, apply_start_idx, highlight_len) ==
    [applicable |-> applicable, already_applied |-> already_applied,
     apply_start_idx |-> apply_start_idx, highlight_len |-> highlight_len]

\* the start index taken from the search of the window even when the removed
\* lines stand at base_idx
EvaluateApplyLowestFirst(lines, removed, added, base_idx) ==
    LET found == FindExactSequenceNear(lines, removed, base_idx, Window)
        hl    == Max2(1, IF added # <<>> THEN Len(added)
                         ELSE IF removed # <<>> THEN Len(removed) ELSE 1)
    IN  IF removed # <<>>
        THEN IF found = None THEN Decision(FALSE, FALSE, None, 0)
             ELSE Decision(TRUE, FALSE, found, hl)
        ELSE Decision(TRUE, FALSE, Some(base_idx), hl)

\* the part of _evaluate_chunk_applicability after the "already applied" test
EvaluateApply(lines, removed, added, base_idx) ==
    LET found == FindExactSequenceNear(lines, removed, base_idx, Window)
        hl    == Max2(1, IF added # <<>> THEN Len(added)
                         ELSE IF removed # <<>> THEN Len(removed) ELSE 1)
    IN  IF removed # <<>> /\ ~SliceEquals(lines, base_idx, removed)
        THEN IF found = None THEN Decision(FALSE, FALSE, None, 0)
             ELSE Decision(TRUE, FALSE, found, hl)
        ELSE Decision(TRUE, FALSE, Some(base_idx), hl)

\* the "already applied" heuristic without the search for the removed lines
IsAlreadyAppliedByAddedOnly(lines, removed, added, base_idx) ==
    /\ added # <<>>
    /\ SliceEquals(lines, base_idx, added)

\* the "already applied" heuristic of _evaluate_chunk_applicability
IsAlreadyApplied(lines, removed, added, base_idx) ==
    /\ added # <<>>
    /\ SliceEquals(lines, base_idx, added)
    /\ \/ removed = <<>>
       \/ FindExactSequenceNear(lines, removed, base_idx, Window) = None

\* _evaluate_chunk_applicability with the changes expected at the first line of
\* the matched context
EvaluateChunkApplicabilityAtContext(lines, details, match_line_num) ==
    IF details.context_lines = <<>> \/ match_line_num = None
    THEN Decision(FALSE, FALSE, None, 0)
    ELSE LET base_idx == match_line_num[1] - 1
         IN  IF IsAlreadyApplied(lines, details.removed_lines, details.added_lines, base_idx)
             THEN Decision(FALSE, TRUE, None, Len(details.added_lines))
             ELSE EvaluateApply(lines, details.removed_lines, details.added_lines, base_idx)

\* _evaluate_chunk_applicability taking a missing match for line 1
EvaluateChunkApplicabilityAtTop(lines, details, match_line_num) ==
    IF details.context_lines = <<>>
    THEN Decision(FALSE, FALSE, None, 0)
    ELSE LET base_idx == (IF match_line_num = None THEN 0 ELSE match_line_num[1] - 1)
                         + details.n_context
         IN  IF IsAlreadyApplied(lines, details.removed_lines, details.added_lines, base_idx)
             THEN Decision(FALSE, TRUE, None, Len(details.added_lines))
             ELSE EvaluateApply(lines, details.removed_lines, details.added_lines, base_idx)

\* _evaluate_chunk_applicability
EvaluateChunkApplicability(lines, details, match_line_num) ==
    IF details.context_lines = <<>> \/ match_line_num = None
    THEN Decision(FALSE, FALSE, None, 0)
    ELSE LET base_idx == (match_line_num[1] - 1) + details.n_context
         IN  IF IsAlreadyApplied(lines, details.removed_lines, details.added_lines, base_idx)
             THEN Decision(FALSE, TRUE, None, Len(details.added_lines))
             ELSE EvaluateApply(lines, details.removed_lines, details.added_lines, base_idx)

(***************************************************************************)
(* The main window: hover state, target buffer, debounce timer, apply      *)
(***************************************************************************)
\* str.replace("\\", "/")
RECURSIVE ToSlashes(_)
ToSlashes(t) ==
    IF Len(t) = 0 THEN ""
    ELSE (IF SubSeq(t, 1, 1) = "\\" THEN "/" ELSE SubSeq(t, 1, 1))
         \o ToSlashes(DropChars(t, 1))

\* sub in t
Contains(t, sub) ==
    \E i \in 1..(Len(t) - Len(sub) + 1) : SubSeq(t, i, i + Len(sub) - 1) = sub

\* str((root / rel).resolve(strict=False)) for paths without "..", "~" or links
PathJoin(root, rel) ==
    IF StartsWith(rel, "/") THEN rel
    ELSE IF Len(root) > 0 /\ SubSeq(root, Len(root), Len(root)) = "/" THEN root \o rel
    ELSE root \o "/" \o rel

\* the root directory of the settings
Root == "/r"

\* context_before as the main window constructs the patch editor
ContextBeforeUsed == 3

\* the files under the root directories: path -> text
Disk == [p \in {"/r/f"} |-> JoinLines(<<"a", "b", "c">>)]

\* full_path.is_file()
IsFile(path) == path \in DOMAIN Disk

\* the state of the main window as one record
MW ==
    [root_dir |-> root_dir, file_text |-> file_text, current_file |-> current_file,
     hover_chunk_idx |-> hover_chunk_idx, hover_chunk_file |-> hover_chunk_file,
     hover_context_lines |-> hover_context_lines,
     hover_applicable |-> hover_applicable,
     hover_already_applied |-> hover_already_applied,
     hover_apply_start_idx |-> hover_apply_start_idx,
     hover_highlight_len |-> hover_highlight_len,
     timer_active |-> timer_active, apply_btn_enabled |-> apply_btn_enabled,
     edited_since_eval |-> edited_since_eval,
     rebuilt_since_eval |-> rebuilt_since_eval, apply_log |-> apply_log,
     apply_request |-> apply_request, burst |-> burst]

\* the main window is left in state w
SetMW(w) ==
    \E v \in {w} :
        /\ root_dir' = v.root_dir
        /\ file_text' = v.file_text
        /\ current_file' = v.current_file
        /\ hover_chunk_idx' = v.hover_chunk_idx
        /\ hover_chunk_file' = v.hover_chunk_file
        /\ hover_context_lines' = v.hover_context_lines
        /\ hover_applicable' = v.hover_applicable
        /\ hover_already_applied' = v.hover_already_applied
        /\ hover_apply_start_idx' = v.hover_apply_start_idx
        /\ hover_highlight_len' = v.hover_highlight_len
        /\ timer_active' = v.timer_active
        /\ apply_btn_enabled' = v.apply_btn_enabled
        /\ edited_since_eval' = v.edited_since_eval
        /\ rebuilt_since_eval' = v.rebuilt_since_eval
        /\ apply_log' = v.apply_log
        /\ apply_request' = v.apply_request
        /\ burst' = v.burst

\* __init__ of the main window, with root the saved root directory; the
\* history of the debounce timer is left to the specification
InitMainWindowFields(root) ==
    /\ root_dir = root
    /\ file_text = ""
    /\ current_file = None
    /\ hover_chunk_idx = None
    /\ hover_chunk_file = None
    /\ hover_context_lines = <<>>
    /\ hover_applicable = FALSE
    /\ hover_already_applied = FALSE
    /\ hover_apply_start_idx = None
    /\ hover_highlight_len = 0
    /\ timer_active = FALSE
    /\ apply_btn_enabled = FALSE
    /\ edited_since_eval = FALSE
    /\ rebuilt_since_eval = FALSE
    /\ apply_log = None
    /\ apply_request = None

\* the main window after __init__, no history of the debounce timer kept
InitMainWindow(root) == InitMainWindowFields(root) /\ burst = None

\* the longest burst of edits that is counted
MaxBurst == 2

\* the history of the debounce timer: edits counts the text changes since the
\* timer was last started from rest, reevals the timeouts since the last text
\* change; both stop counting at MaxBurst
NoBurst == Some([edits |-> 0, reevals |-> 0])

\* a text change enters the history
BurstEdit(w) ==
    IF w.burst = None THEN None
    ELSE Some([edits   |-> IF w.timer_active
                           THEN Min2(w.burst[1].edits + 1, MaxBurst) ELSE 1,
               reevals |-> 0])

\* a timeout enters the history
BurstTimeout(w) ==
    IF w.burst = None THEN None
    ELSE Some([w.burst[1] EXCEPT !.reevals = Min2(@ + 1, MaxBurst)])

\* is_view_empty
IsViewEmpty(w) == w.file_text = "" /\ w.current_file = None

\* not x, for x a string or None
Falsy(x) == x = None \/ x = Some("")

\* the hover fields hold a start index an apply would use as it is
HasCachedStart(w) == w.hover_apply_start_idx # None /\ w.hover_applicable

\* the text of the buffer becomes text: textChanged -> _on_file_text_changed
\* restarts the debounce timer
TextChanged(w, text) ==
    [w EXCEPT !.file_text = text, !.timer_active = TRUE,
              !.edited_since_eval = HasCachedStart(w), !.burst = BurstEdit(w)]

\* the chunk's file is not the file of the buffer
OtherFile(w, details) ==
    \/ w.current_file = None
    \/ w.current_file = Some("")
    \/ ~Contains(ToSlashes(w.current_file[1]), ToSlashes(details.file_path))

\* the locator and the evaluator as both callers run them: lines located with
\* min_score=60, the chunk evaluated at the match
LocateAndEvaluate(lines, details) ==
    Strict(LAMBDA a :
               Strict(LAMBDA match_line_num :
                          EvaluateChunkApplicability(a[1], a[2], match_line_num),
                      FindBestMatch(a[1], a[2].context_lines, MinScoreUsed)),
           <<lines, details>>)

\* _evaluate_and_update_ui_for_hovered_chunk
EvaluateAndUpdateUi(w) ==
    IF w.hover_chunk_idx = None \/ Falsy(w.hover_chunk_file)
    THEN [w EXCEPT !.apply_btn_enabled = FALSE]
    ELSE LET details == GetChunkDetails(w.hover_chunk_idx[1])
         IN  IF details = None THEN [w EXCEPT !.apply_btn_enabled = FALSE]
             ELSE IF OtherFile(w, details[1]) THEN [w EXCEPT !.apply_btn_enabled = FALSE]
             ELSE Strict(LAMBDA d :
                             [w EXCEPT !.hover_applicable = d.applicable,
                                       !.hover_already_applied = d.already_applied,
                                       !.hover_apply_start_idx = d.apply_start_idx,
                                       !.hover_highlight_len = d.highlight_len,
                                       !.apply_btn_enabled =
                                           ~d.already_applied /\ d.applicable
                                           /\ d.apply_start_idx # None,
                                       !.edited_since_eval = FALSE,
                                       !.rebuilt_since_eval = FALSE],
                         LocateAndEvaluate(SplitLines(w.file_text), details[1]))

\* the hover fields cleared but for the index of the chunk
ClearHoverKeepsIndex(w) ==
    [w EXCEPT !.hover_chunk_file = None,
              !.hover_context_lines = <<>>, !.hover_applicable = FALSE,
              !.hover_already_applied = FALSE, !.hover_apply_start_idx = None,
              !.hover_highlight_len = 0, !.apply_btn_enabled = FALSE,
              !.edited_since_eval = FALSE, !.rebuilt_since_eval = FALSE]

\* the hover fields as _on_chunk_hovered clears them when a chunk is left
ClearHover(w) ==
    [w EXCEPT !.hover_chunk_idx = None, !.hover_chunk_file = None,
              !.hover_context_lines = <<>>, !.hover_applicable = FALSE,
              !.hover_already_applied = FALSE, !.hover_apply_start_idx = None,
              !.hover_highlight_len = 0, !.apply_btn_enabled = FALSE,
              !.edited_since_eval = FALSE, !.rebuilt_since_eval = FALSE]

\* the part of _on_chunk_hovered that loads the file into an empty view
LoadIfEmpty(w, full_path) ==
    [TextChanged(w, IF IsFile(full_path) THEN Disk[full_path] ELSE "")
        EXCEPT !.current_file = Some(full_path)]

\* _on_chunk_hovered loading the chunk's file over the file of the buffer
OnChunkHoveredSwitchesFile(w, chunk_idx, file_path, context_lines) ==
    IF chunk_idx = -1 \/ file_path = "" THEN ClearHover(w)
    ELSE LET w1 == [w EXCEPT !.hover_chunk_idx = Some(chunk_idx),
                             !.hover_chunk_file = Some(ToSlashes(file_path)),
                             !.hover_context_lines = context_lines]
             full_path == PathJoin(Strip(w.root_dir), ToSlashes(file_path))
         IN  IF Strip(w.root_dir) = "" THEN [w1 EXCEPT !.apply_btn_enabled = FALSE]
             ELSE IF IsViewEmpty(w1)
                     \/ (~Falsy(w1.current_file) /\ w1.current_file[1] # full_path)
                  THEN Strict(EvaluateAndUpdateUi, LoadIfEmpty(w1, full_path))
             ELSE EvaluateAndUpdateUi(w1)

\* _on_chunk_hovered(chunk_idx, file_path, context_lines, _)
OnChunkHovered(w, chunk_idx, file_path, context_lines) ==
    IF chunk_idx = -1 \/ file_path = "" THEN ClearHover(w)
    ELSE LET w1 == [w EXCEPT !.hover_chunk_idx = Some(chunk_idx),
                             !.hover_chunk_file = Some(ToSlashes(file_path)),
                             !.hover_context_lines = context_lines]
             full_path == PathJoin(Strip(w.root_dir), ToSlashes(file_path))
         IN  IF Strip(w.root_dir) = "" THEN [w1 EXCEPT !.apply_btn_enabled = FALSE]
             ELSE IF IsViewEmpty(w1)
                  THEN Strict(EvaluateAndUpdateUi, LoadIfEmpty(w1, full_path))
             ELSE IF ~Falsy(w1.current_file) /\ w1.current_file[1] # full_path
                  THEN [w1 EXCEPT !.apply_btn_enabled = FALSE]
             ELSE EvaluateAndUpdateUi(w1)

\* the end of _apply_hovered_chunk_if_possible: the chunk applied at the start
\* index of the hover fields, the buffer replaced, the hover state evaluated
\* again. cached tells that the start index was not computed by this call.
ApplyAndReevaluate(w, lines, details, cached) ==
    LET start     == w.hover_apply_start_idx[1]
        new_lines == ApplyAt(lines, start, details.removed_lines, details.added_lines)
        fresh     == EvaluateChunkApplicability(
                         lines, details,
                         FindBestMatch(lines, details.context_lines, MinScoreUsed))
        log       == [start |-> start, cached |-> cached,
                      edited |-> cached /\ w.edited_since_eval,
                      rebuilt |-> cached /\ w.rebuilt_since_eval,
                      fresh_start |-> fresh.apply_start_idx]
    IN  EvaluateAndUpdateUi(
            [TextChanged(w, JoinLines(new_lines)) EXCEPT !.apply_log = Some(log)])

\* _apply_hovered_chunk_if_possible without the test of the loaded file
ApplyHoveredChunkAnyFile(w) ==
    IF w.hover_chunk_idx = None THEN w
    ELSE LET details == GetChunkDetails(w.hover_chunk_idx[1])
             lines   == SplitLines(w.file_text)
         IN  IF details = None THEN w
             ELSE IF ~HasCachedStart(w)
                  THEN LET match_line_num ==
                               FindBestMatch(lines, details[1].context_lines, MinScoreUsed)
                           d == EvaluateChunkApplicability(lines, details[1], match_line_num)
                       IN  IF ~d.applicable \/ d.already_applied THEN w
                           ELSE ApplyAndReevaluate(
                                    [w EXCEPT !.hover_apply_start_idx = d.apply_start_idx,
                                              !.hover_highlight_len = d.highlight_len],
                                    lines, details[1], FALSE)
             ELSE ApplyAndReevaluate(w, lines, details[1], TRUE)

\* _apply_hovered_chunk_if_possible
ApplyHoveredChunkIfPossible(w) ==
    IF w.hover_chunk_idx = None THEN w
    ELSE LET details == GetChunkDetails(w.hover_chunk_idx[1])
             lines   == SplitLines(w.file_text)
         IN  IF details = None THEN w
             ELSE IF OtherFile(w, details[1]) THEN w
             ELSE IF ~HasCachedStart(w)
                  THEN LET match_line_num ==
                               FindBestMatch(lines, details[1].context_lines, MinScoreUsed)
                           d == EvaluateChunkApplicability(lines, details[1], match_line_num)
                       IN  IF ~d.applicable \/ d.already_applied THEN w
                           ELSE ApplyAndReevaluate(
                                    [w EXCEPT !.hover_apply_start_idx = d.apply_start_idx,
                                              !.hover_highlight_len = d.highlight_len],
                                    lines, details[1], FALSE)
             ELSE ApplyAndReevaluate(w, lines, details[1], TRUE)

\* _on_chunk_apply_requested(chunk_idx)
OnChunkApplyRequested(w, chunk_idx) ==
    IF w.hover_chunk_idx # Some(chunk_idx)
    THEN LET details == GetChunkDetails(chunk_idx)
         IN  IF details = None THEN w
             ELSE ApplyHoveredChunkIfPossible(EvaluateAndUpdateUi(
                      [w EXCEPT !.hover_chunk_file =
                                    IF Falsy(w.hover_chunk_file)
                                    THEN Some(ToSlashes(details[1].file_path))
                                    ELSE w.hover_chunk_file,
                                !.hover_chunk_idx = Some(chunk_idx),
                                !.hover_context_lines = details[1].context_lines]))
    ELSE ApplyHoveredChunkIfPossible(w)

\* _reevaluate_hover_state_once
ReevaluateHoverStateOnce(w) ==
    IF w.hover_chunk_idx = None \/ w.hover_chunk_idx[1] < 0
    THEN [w EXCEPT !.apply_btn_enabled = FALSE]
    ELSE EvaluateAndUpdateUi(w)

\* the timeout of a debounce timer that is not single-shot
DebounceTimeoutRepeating(w) ==
    Strict(ReevaluateHoverStateOnce, [w EXCEPT !.burst = BurstTimeout(w)])

\* the timeout of the single-shot debounce timer: the timer is at rest and
\* _reevaluate_hover_state_once runs
DebounceTimeout(w) ==
    Strict(ReevaluateHoverStateOnce,
           [w EXCEPT !.timer_active = FALSE, !.burst = BurstTimeout(w)])

(***************************************************************************)
(* The arguments the functions of the main window are run on               *)
(***************************************************************************)
MaxTargetLen == 3
MaxContextLen == 2
MaxRemovedLen == 2
MaxAddedLen == 2

SeqsUpTo(S, n) == UNION {[1..k -> S] : k \in 0..n}

\* lines of a target: two that differ in one character, one unlike both
LineSet == {"abc", "abx", "q"}
QueryLineSet == {"abc", "q"}
DataLineSet == {"q", "abx"}

\* g lines found nowhere in a chunk
Fill(g) == [k \in 1..g |-> "z"]

\* distances around the search window of the evaluator
Gaps == (Window - 2)..(Window + 1)

ShortTargets == SeqsUpTo(LineSet, MaxTargetLen)
\* the first lines of a long target: one line, or a context line and a data line
Heads == {<<p>> : p \in LineSet} \cup {<<"abc", a>> : a \in DataLineSet}
LongTargets ==
    {h \o Fill(g) \o <<s>> : h \in Heads, s \in LineSet, g \in Gaps}
Targets == ShortTargets \cup LongTargets

ContextCases == SeqsUpTo(QueryLineSet, MaxContextLen)
RemovedCases == SeqsUpTo(DataLineSet, MaxRemovedLen)
AddedCases == SeqsUpTo(DataLineSet, MaxAddedLen)

\* the removed and added lines of the chunks the evaluator is run on: runs of
\* one line each, and a chunk that adds the line it removes
EvalRemovedCases == SeqsUpTo({"q"}, MaxRemovedLen)
EvalAddedCases == SeqsUpTo({"abx"}, MaxAddedLen) \cup {<<"q">>}

\* the dict of get_chunk_details as far as the evaluator reads it
DetailsOf(file_path, cl, removed, added) ==
    [file_path |-> file_path, context_lines |-> cl, n_context |-> Len(cl),
     removed_lines |-> removed, added_lines |-> added]

NoDetails == DetailsOf("", <<>>, <<>>, <<>>)
NoDecision == Decision(FALSE, FALSE, None, 0)

\* no run of the functions is under way
EvIdle ==
    /\ ev_pc = "idle"
    /\ ev_scorer = "ratio"
    /\ ev_min_score = MinScoreUsed
    /\ ev_lines = <<>>
    /\ ev_details = NoDetails
    /\ ev_start = 0
    /\ ev_match = None
    /\ ev_decision = NoDecision
    /\ ev_new_lines = <<>>
    /\ ev_match2 = None
    /\ ev_decision2 = NoDecision

(***************************************************************************)
(* The patch editor alone: its document is edited line by line and every   *)
(* change of content runs _recompute_chunks before anything else happens.  *)
(***************************************************************************)
MaxPatchLen == 5

\* the configured context limits given to the constructor
ContextBeforeArgs == 0..4

PatchLineSet == {"+++ b/f", "@@ -1 +1 @@", "+x", "-y", " c", " ", ""}

\* __init__: an empty document, the limit clamped to 1..3, chunks recomputed
InitPatchEditFields(cb) ==
    /\ patch_doc = <<"">>
    /\ context_before = Max2(1, Min2(3, cb))
    /\ debug = FALSE
    /\ chunk_count = 0
    /\ chunk_block_spans = <<>>
    /\ chunk_pos_spans = <<>>
    /\ chunk_file_paths = <<>>
    /\ chunk_context_info = <<>>
    /\ user_state = <<-1>>
    /\ last_hover_chunk = None

InitPatchEdit(cb) == InitPatchEditFields(cb) /\ recomputes = None

InitParse ==
    /\ EvIdle
    /\ InitMainWindow(Root)
    /\ \E cb \in ContextBeforeArgs : InitPatchEdit(cb)

\* the user types a line at the end of the text (the first line of an empty
\* document): contentsChanged -> _recompute_chunks
PatchAppendLineOf(S) ==
    \E l \in S :
        /\ Len(patch_doc) < MaxPatchLen
        /\ patch_doc' = IF patch_doc = <<"">> THEN <<l>> ELSE Append(patch_doc, l)
        /\ RecomputeChunks(patch_doc')
        /\ UNCHANGED <<context_before, debug, last_hover_chunk, evVars, mwVars>>

PatchAppendLine == PatchAppendLineOf(PatchLineSet)

\* the user deletes the last line
PatchDeleteLastLine ==
    /\ patch_doc # <<"">>
    /\ patch_doc' = IF Len(patch_doc) = 1 THEN <<"">>
                    ELSE SubSeq(patch_doc, 1, Len(patch_doc) - 1)
    /\ RecomputeChunks(patch_doc')
    /\ UNCHANGED <<context_before, debug, last_hover_chunk, evVars, mwVars>>

NextParse == PatchAppendLine \/ PatchDeleteLastLine

SpecParse == InitParse /\ [][NextParse]_vars

\* patches of several files: headers with and without the b/ prefix, a header
\* without a path, hunks and chunks between them
HeaderLineSet == {"+++ b/f", "+++ g", "+++ ", "@@ -1 +1 @@", "+x", " c"}

HeaderAppendLine == PatchAppendLineOf(HeaderLineSet)

NextHeaders == HeaderAppendLine \/ PatchDeleteLastLine

SpecHeaders == InitParse /\ [][NextHeaders]_vars

\* patches of Add and Del runs of several lines each, with a line that starts
\* with "+" and is neither an Add line nor a header
RunLineSet == {"@@ -1 +1 @@", "+x", "+z", "-y", "-w", " c", "+++"}

RunAppendLine == PatchAppendLineOf(RunLineSet)

\* set_debug(on): the flag is stored and the chunks are recomputed over the
\* unchanged text
SetDebug ==
    \E on \in BOOLEAN :
        /\ debug' = on
        /\ RecomputeChunks(patch_doc)
        /\ UNCHANGED <<patch_doc, context_before, last_hover_chunk, evVars, mwVars>>

\* the texts typed while the debug flag is switched
DebugLineSet == {"+++ b/f", "@@ -1 +1 @@", "+x", "-y", " c"}

DebugAppendLine == PatchAppendLineOf(DebugLineSet)

InitDebug ==
    /\ EvIdle
    /\ InitMainWindow(Root)
    /\ \E cb \in ContextBeforeArgs : InitPatchEditFields(cb)
    /\ recomputes = Some(FALSE)

NextDebug == DebugAppendLine \/ PatchDeleteLastLine \/ SetDebug

SpecDebug == InitDebug /\ [][NextDebug]_vars

NextRuns == RunAppendLine \/ PatchDeleteLastLine

SpecRuns == InitParse /\ [][NextRuns]_vars

(***************************************************************************)
(* The functions of the main window alone, run on given arguments          *)
(***************************************************************************)
Scorers == {"ratio", "exact", "length"}
MinScores == {0, MinScoreUsed, MinScoreDefault, 100}

\* _find_best_match(lines, context_lines, min_score)
EvLocate ==
    /\ ev_pc = "locate"
    /\ ev_match' = FindBestMatchBy(ev_scorer, ev_lines, ev_details.context_lines, ev_min_score)
    /\ ev_pc' = "located"
    /\ UNCHANGED <<ev_scorer, ev_min_score, ev_lines, ev_details, ev_start, ev_decision,
                   ev_new_lines, ev_match2, ev_decision2, peVars, mwVars>>

\* _evaluate_chunk_applicability(lines, details, match_line_num); an applicable
\* chunk goes on to be applied at the start index returned
EvEvaluate ==
    /\ ev_pc = "located"
    /\ ev_decision' = EvaluateChunkApplicability(ev_lines, ev_details, ev_match)
    /\ ev_start' = IF ev_decision'.apply_start_idx # None
                   THEN ev_decision'.apply_start_idx[1] ELSE ev_start
    /\ ev_pc' = IF ev_decision'.applicable /\ ev_decision'.apply_start_idx # None
                THEN "apply" ELSE "evaluated"
    /\ UNCHANGED <<ev_scorer, ev_min_score, ev_lines, ev_details, ev_match,
                   ev_new_lines, ev_match2, ev_decision2, peVars, mwVars>>

\* _apply_at(lines, start_idx, removed_lines, added_lines)
EvApplyAt ==
    /\ ev_pc = "apply"
    /\ ev_new_lines' = ApplyAt(ev_lines, ev_start, ev_details.removed_lines,
                               ev_details.added_lines)
    /\ ev_pc' = "applied"
    /\ UNCHANGED <<ev_scorer, ev_min_score, ev_lines, ev_details, ev_start, ev_match,
                   ev_decision, ev_match2, ev_decision2, peVars, mwVars>>

\* the same chunk located and evaluated against the new lines
EvReevaluate ==
    /\ ev_pc = "applied"
    /\ ev_match2' = FindBestMatchBy(ev_scorer, ev_new_lines, ev_details.context_lines,
                                    ev_min_score)
    /\ ev_decision2' = EvaluateChunkApplicability(ev_new_lines, ev_details, ev_match2')
    /\ ev_pc' = "reevaluated"
    /\ UNCHANGED <<ev_scorer, ev_min_score, ev_lines, ev_details, ev_start, ev_match,
                   ev_decision, ev_new_lines, peVars, mwVars>>

\* the locator on every target, query, threshold and scoring function
InitLocate ==
    /\ InitPatchEdit(ContextBeforeUsed)
    /\ InitMainWindow(Root)
    /\ ev_pc = "locate"
    /\ ev_scorer \in Scorers
    /\ ev_min_score \in MinScores
    /\ ev_lines \in Targets
    /\ ev_details \in {DetailsOf("", q, <<>>, <<>>) : q \in ContextCases}
    /\ ev_start = 0
    /\ ev_match = None
    /\ ev_decision = NoDecision
    /\ ev_new_lines = <<>>
    /\ ev_match2 = None
    /\ ev_decision2 = NoDecision

NextLocate == EvLocate

SpecLocate == InitLocate /\ [][NextLocate]_vars

\* the applicator on every target, start index and removed and added lines
InitApply ==
    /\ InitPatchEdit(ContextBeforeUsed)
    /\ InitMainWindow(Root)
    /\ ev_pc = "apply"
    /\ ev_scorer = "ratio"
    /\ ev_min_score = MinScoreUsed
    /\ ev_lines \in ShortTargets
    /\ ev_details \in {DetailsOf("", <<>>, r, a) : r \in RemovedCases, a \in AddedCases}
    /\ ev_start \in 0..(MaxTargetLen + 1)
    /\ ev_match = None
    /\ ev_decision = NoDecision
    /\ ev_new_lines = <<>>
    /\ ev_match2 = None
    /\ ev_decision2 = NoDecision

NextApply == EvApplyAt

SpecApply == InitApply /\ [][NextApply]_vars

\* locate, evaluate, apply and evaluate again, as the main window calls them:
\* fuzz.ratio and min_score=60
InitEval ==
    /\ InitPatchEdit(ContextBeforeUsed)
    /\ InitMainWindow(Root)
    /\ ev_pc = "locate"
    /\ ev_scorer = "ratio"
    /\ ev_min_score = MinScoreUsed
    /\ ev_lines \in Targets
    /\ ev_details \in {DetailsOf("f", c, r, a) :
                          c \in ContextCases, r \in EvalRemovedCases,
                          a \in EvalAddedCases}
    /\ ev_start = 0
    /\ ev_match = None
    /\ ev_decision = NoDecision
    /\ ev_new_lines = <<>>
    /\ ev_match2 = None
    /\ ev_decision2 = NoDecision

NextEval == EvLocate \/ EvEvaluate \/ EvApplyAt \/ EvReevaluate

SpecEval == InitEval /\ [][NextEval]_vars

(***************************************************************************)
(* The application: the user pastes patches, moves the mouse over the      *)
(* patch editor, edits the target buffer and asks for chunks to be applied;*)
(* the debounce timer fires between any two of these events.               *)
(***************************************************************************)
MaxFileLen == 4

\* the patch texts the user pastes over the whole patch editor
Patches ==
    { <<"">>,
      <<"+++ b/f", "@@ -2 +2 @@", " b", "-c", "+C">>,
      <<"+++ b/f", "@@ -1 +1 @@", " a", "-b", "+B",
        "+++ b/g", "@@ -1 +1 @@", " x", "+m">> }

\* the root directories the settings hold
Roots == {"", Root}

\* the lines the user types into the target buffer
TypedLines == {"x"}

\* the window as constructed, with the root directory load_settings finds
Init ==
    /\ EvIdle
    /\ InitPatchEdit(ContextBeforeUsed)
    /\ \E r \in Roots : InitMainWindow(r)

\* an event that is no apply: the last apply is no longer the latest event
Handled(w) == SetMW([w EXCEPT !.apply_log = None, !.apply_request = None])

\* an apply request that found the main window in state w was handled
Requested(w, after) ==
    SetMW([after EXCEPT !.apply_request =
                            Some([held |-> HasCachedStart(w),
                                  text_before |-> w.file_text])])

\* the patch editor's text is replaced: contentsChanged -> _recompute_chunks;
\* no signal reaches the main window
PastePatchOf(S) ==
    \E p \in S :
        /\ p # patch_doc
        /\ patch_doc' = p
        /\ RecomputeChunks(p)
        /\ Handled([MW EXCEPT !.rebuilt_since_eval = HasCachedStart(MW)])
        /\ UNCHANGED <<context_before, debug, last_hover_chunk, evVars>>

PastePatch == PastePatchOf(Patches)

\* the tags of the blocks of the patch editor: block.userState() of the block
\* under the cursor
BlockTags == {user_state[b + 1] : b \in 0..(Len(patch_doc) - 1)}

\* mouseMoveEvent with the cursor over a block tagged idx
MouseMove ==
    \E tag \in BlockTags :
        LET idx == tag
        IN  /\ IF idx >= 0
               THEN /\ last_hover_chunk' = Some(idx)
                    /\ IF last_hover_chunk # Some(idx)
                       THEN Handled(OnChunkHovered(MW, idx, chunk_file_paths[idx + 1],
                                                   chunk_context_info[idx + 1][1]))
                       ELSE Handled(MW)
               ELSE /\ last_hover_chunk' = None
                    /\ IF last_hover_chunk # None
                       THEN Handled(OnChunkHovered(MW, -1, "", <<>>))
                       ELSE Handled(MW)
            /\ UNCHANGED <<patch_doc, context_before, debug, recomputes, chunk_count, chunk_block_spans,
                           chunk_pos_spans, chunk_file_paths, chunk_context_info,
                           user_state, evVars>>

\* leaveEvent
Leave ==
    /\ last_hover_chunk' = None
    /\ Handled(OnChunkHovered(MW, -1, "", <<>>))
    /\ UNCHANGED <<patch_doc, context_before, debug, recomputes, chunk_count, chunk_block_spans,
                   chunk_pos_spans, chunk_file_paths, chunk_context_info,
                   user_state, evVars>>

\* contextMenuEvent over a block tagged idx, a block of a chunk, "Apply Chunk"
\* chosen: chunkApplyRequested -> _on_chunk_apply_requested
ContextMenuApply ==
    \E idx \in BlockTags :
        /\ idx >= 0
        /\ Len(SplitLines(file_text)) <= MaxFileLen
        /\ Requested(MW, OnChunkApplyRequested([MW EXCEPT !.apply_log = None], idx))
        /\ UNCHANGED <<peVars, evVars>>

\* the enabled apply button is clicked
ClickApply ==
    /\ apply_btn_enabled
    /\ Len(SplitLines(file_text)) <= MaxFileLen
    /\ Requested(MW, ApplyHoveredChunkIfPossible([MW EXCEPT !.apply_log = None]))
    /\ UNCHANGED <<peVars, evVars>>

\* the user types a line above the text of the target buffer
InsertLineUpTo(most) ==
    \E l \in TypedLines :
        /\ Len(SplitLines(file_text)) < most
        /\ Handled(TextChanged(MW, JoinLines(<<l>> \o SplitLines(file_text))))
        /\ UNCHANGED <<peVars, evVars>>

InsertLine == InsertLineUpTo(MaxFileLen)

\* the user deletes the first line of the target buffer
DeleteLine ==
    /\ file_text # ""
    /\ Handled(TextChanged(MW, JoinLines(Tail(SplitLines(file_text)))))
    /\ UNCHANGED <<peVars, evVars>>

\* the debounce timer fires: _reevaluate_hover_state_once
TimerExpires ==
    /\ timer_active
    /\ Handled(DebounceTimeout(MW))
    /\ UNCHANGED <<peVars, evVars>>

Next ==
    \/ PastePatch
    \/ MouseMove
    \/ Leave
    \/ ContextMenuApply
    \/ ClickApply
    \/ InsertLine
    \/ DeleteLine
    \/ TimerExpires

Spec == Init /\ [][Next]_vars

\* the application with the user typing into buffers of fewer lines
MaxTypedFileLen == 3

InsertLineShort == InsertLineUpTo(MaxTypedFileLen)

NextHover ==
    \/ PastePatch
    \/ MouseMove
    \/ Leave
    \/ ContextMenuApply
    \/ ClickApply
    \/ InsertLineShort
    \/ DeleteLine
    \/ TimerExpires

SpecHover == Init /\ [][NextHover]_vars

\* the application on a patch whose first chunk stands before any file header:
\* hover, leave, context-menu apply and button apply
PathlessPatches ==
    { <<"">>,
      <<"@@ -1 +1 @@", " a", "-b", "+B",
        "+++ b/f", "@@ -2 +2 @@", " b", "-c", "+C">> }

PastePathlessPatch == PastePatchOf(PathlessPatches)

NextPathless ==
    \/ PastePathlessPatch
    \/ MouseMove
    \/ Leave
    \/ ContextMenuApply
    \/ ClickApply

SpecPathless == Init /\ [][NextPathless]_vars

\* the application with the history of the debounce timer kept. The event loop
\* delivers the timeout of an active timer: the timer fires 150 ms after it was
\* last started.
InitDebounce ==
    /\ EvIdle
    /\ InitPatchEdit(ContextBeforeUsed)
    /\ InitMainWindowFields(Root)
    /\ burst = NoBurst

\* the events of the application other than the apply requests
NextDebounce ==
    \/ PastePatch
    \/ MouseMove
    \/ Leave
    \/ InsertLine
    \/ DeleteLine
    \/ TimerExpires

SpecDebounce == InitDebounce /\ [][NextDebounce]_vars /\ WF_vars(TimerExpires)

(***************************************************************************)
(* Properties of the chunk builder (SpecParse)                             *)
(***************************************************************************)
ChunkIndices == 0..(chunk_count - 1)

Details(i) == GetChunkDetails(i)[1]

\* the number of entries of lines with non-whitespace content
RECURSIVE NonblankCount(_)
NonblankCount(lines) ==
    IF lines = <<>> THEN 0
    ELSE (IF Len(Strip(Head(lines))) > 0 THEN 1 ELSE 0) + NonblankCount(Tail(lines))

\* a line that is none of NewFileHeader, HunkHeader, Add, Del, Context
IsOther(text) ==
    ~(IsNewFileHeader(text) \/ IsHunkHeader(text) \/ IsAdd(text) \/ IsDel(text) \/ IsCtx(text))

\* C1 as stated: every chunk's context_lines has at most N entries, N the
\* configured limit clamped to 1..3, wherever blank context lines stand.
C1_ContextBound ==
    \A i \in ChunkIndices : Details(i).n_context <= context_before

\* C1 amended: every chunk's context_lines has at most N entries with
\* non-whitespace content; the blank context lines between the earliest
\* retained context line and the first Del/Add line are listed as well and
\* do not count.
C1_NonblankContextBound ==
    \A i \in ChunkIndices :
        /\ Details(i).n_context = Len(Details(i).context_lines)
        /\ NonblankCount(Details(i).context_lines) <= context_before

\* a chunk whose backward scan stopped at the limit, leaving a nonblank
\* context line out, and whose context_lines holds a blank line besides
C1_Witness ==
    \E i \in ChunkIndices :
        LET start == chunk_block_spans[i + 1][1]
        IN  /\ NonblankCount(Details(i).context_lines) = context_before
            /\ Details(i).n_context > context_before
            /\ start > 0
            /\ CtxHasContent(BlockText(patch_doc, start - 1))

\* the hunk is active before block b as the specification has it: a HunkHeader precedes
\* b with no NewFileHeader and no Other line between the two
HunkActiveBefore(doc, b) ==
    \E h \in 0..(b - 1) :
        /\ IsHunkHeader(BlockText(doc, h))
        /\ \A j \in (h + 1)..(b - 1) :
              ~IsNewFileHeader(BlockText(doc, j)) /\ ~IsOther(BlockText(doc, j))

\* C2 as stated: once an Other line is scanned inside a hunk the hunk is no
\* longer active, so no Add or Del line after it lies in a chunk until the
\* next HunkHeader.
C2_OtherLineEndsHunk ==
    \A i \in ChunkIndices :
        \A b \in chunk_block_spans[i + 1][1]..chunk_block_spans[i + 1][2] :
            (IsAdd(BlockText(patch_doc, b)) \/ IsDel(BlockText(patch_doc, b)))
                => HunkActiveBefore(patch_doc, b)

\* C12: the chunks of one recompute stand in increasing patch-line order with
\* pairwise disjoint inclusive spans: every span starts after the span before
\* it ends, and no block lies in two spans.
C12_SpansOrderedDisjoint ==
    /\ \A i \in ChunkIndices :
          /\ 0 <= chunk_block_spans[i + 1][1]
          /\ chunk_block_spans[i + 1][1] <= chunk_block_spans[i + 1][2]
          /\ chunk_block_spans[i + 1][2] < Len(patch_doc)
    /\ \A i \in ChunkIndices : \A j \in ChunkIndices :
          i < j => chunk_block_spans[i + 1][2] < chunk_block_spans[j + 1][1]
    /\ \A b \in 0..(Len(patch_doc) - 1) :
          Cardinality({i \in ChunkIndices :
                          /\ chunk_block_spans[i + 1][1] <= b
                          /\ b <= chunk_block_spans[i + 1][2]}) <= 1

\* a chunk that starts with a context line on the line after the chunk before
\* it ends
C12_Witness ==
    \E i \in ChunkIndices : \E j \in ChunkIndices :
        /\ chunk_block_spans[j + 1][1] = chunk_block_spans[i + 1][2] + 1
        /\ IsCtx(BlockText(patch_doc, chunk_block_spans[j + 1][1]))

\* blocks lo..hi are a maximal run of Del lines that no Add line follows
IsLoneDelRun(doc, lo, hi) ==
    /\ \A b \in lo..hi : IsDel(BlockText(doc, b))
    /\ lo = 0 \/ ~IsDel(BlockText(doc, lo - 1))
    /\ hi = Len(doc) - 1
         \/ (~IsDel(BlockText(doc, hi + 1)) /\ ~IsAdd(BlockText(doc, hi + 1)))

LoneDelRuns(doc) ==
    {r \in (0..(Len(doc) - 1)) \X (0..(Len(doc) - 1)) :
        r[1] <= r[2] /\ IsLoneDelRun(doc, r[1], r[2])}

\* block b of the document in which line `line` stands for blocks lo..hi
Moved(b, lo, hi) == IF b > hi THEN b - (hi - lo) ELSE b

\* the chunks of the current document are those the scan finds in the document
\* with `line` in place of blocks lo..hi, the blocks after hi moved up
SameChunksWithLineFor(lo, hi, line) ==
    \A st \in {ScanLoop(SubSeq(patch_doc, 1, lo) \o <<line>>
                        \o SubSeq(patch_doc, hi + 2, Len(patch_doc)),
                        context_before, ScanStart)} :
        /\ Len(st.spans) = chunk_count
        /\ st.paths = chunk_file_paths
        /\ \A k \in 1..chunk_count :
              /\ st.spans[k] = <<Moved(chunk_block_spans[k][1], lo, hi),
                                 Moved(chunk_block_spans[k][2], lo, hi)>>
              /\ st.ctx[k][1] = chunk_context_info[k][1]

\* C13: a maximal run of Del lines that no Add line follows has none of its
\* lines in a chunk's span, and the chunks of the patch are those of the patch
\* with a single non-context line (a Del line, an empty line) in place of the
\* run.
C13_LoneDelRunMakesNoChunk ==
    \A r \in LoneDelRuns(patch_doc) :
        /\ \A i \in ChunkIndices : \A b \in r[1]..r[2] :
              ~(chunk_block_spans[i + 1][1] <= b /\ b <= chunk_block_spans[i + 1][2])
        /\ SameChunksWithLineFor(r[1], r[2], "-y")
        /\ SameChunksWithLineFor(r[1], r[2], "")

\* a run of two Del lines inside a hunk, a context line after it, and a chunk
\* made of the lines after the run
C13_Witness ==
    \E r \in LoneDelRuns(patch_doc) :
        /\ r[2] > r[1]
        /\ HunkActiveBefore(patch_doc, r[1])
        /\ \E i \in ChunkIndices : chunk_block_spans[i + 1][1] = r[2] + 1

\* the NewFileHeader lines before block b
HeadersBefore(doc, b) == {h \in 0..(b - 1) : IsNewFileHeader(BlockText(doc, h))}

\* the path the nearest NewFileHeader before block b names, "" without one
PathBefore(doc, b) ==
    IF HeadersBefore(doc, b) = {} THEN ""
    ELSE ParseFilepathFromHeader(
             BlockText(doc, CHOOSE h \in HeadersBefore(doc, b) :
                                \A g \in HeadersBefore(doc, b) : g <= h))

\* C14: every chunk's file_path is the path parsed from the nearest
\* NewFileHeader before the chunk's first line, and "" if there is none.
C14_PathOfNearestHeader ==
    \A i \in ChunkIndices :
        /\ chunk_file_paths[i + 1] = PathBefore(patch_doc, chunk_block_spans[i + 1][1])
        /\ Details(i).file_path = chunk_file_paths[i + 1]

\* two headers of different paths before a chunk, which carries the second
C14_Witness ==
    \E i \in ChunkIndices :
        \E h \in HeadersBefore(patch_doc, chunk_block_spans[i + 1][1]) :
            /\ ParseFilepathFromHeader(BlockText(patch_doc, h)) = "f"
            /\ chunk_file_paths[i + 1] = "g"

\* the first Del or Add line of chunk i
FirstDataLine(i) ==
    CHOOSE b \in chunk_block_spans[i + 1][1]..chunk_block_spans[i + 1][2] :
        /\ IsDel(BlockText(patch_doc, b)) \/ IsAdd(BlockText(patch_doc, b))
        /\ \A c \in chunk_block_spans[i + 1][1]..(b - 1) :
              ~(IsDel(BlockText(patch_doc, c)) \/ IsAdd(BlockText(patch_doc, c)))

\* the nonblank context lines the backward scan from block fd can reach: those
\* with nothing but context lines between them and fd
ReachedNonblank(doc, fd) ==
    {b \in 0..(fd - 1) :
        /\ CtxHasContent(BlockText(doc, b))
        /\ \A c \in b..(fd - 1) : IsCtx(BlockText(doc, c)) /\ ~IsHunkHeader(BlockText(doc, c))}

\* C15: every chunk's span starts at the k-th nearest nonblank context line
\* the backward scan reaches from the first data line, k the smaller of the
\* limit and the number of such lines, and at the first data line if k = 0.
C15_SpanStartsAtKthNonblank ==
    \A i \in ChunkIndices :
        LET fd      == FirstDataLine(i)
            reached == ReachedNonblank(patch_doc, fd)
            k       == Min2(context_before, Cardinality(reached))
            start   == chunk_block_spans[i + 1][1]
        IN  IF k = 0 THEN start = fd
            ELSE /\ start \in reached
                 /\ Cardinality({b \in reached : b >= start}) = k

\* a blank context line stands directly before the data lines of a chunk, and
\* the span starts at a nonblank context line before it
C15_Witness ==
    \E i \in ChunkIndices :
        /\ FirstDataLine(i) > 0
        /\ IsCtx(BlockText(patch_doc, FirstDataLine(i) - 1))
        /\ ~CtxHasContent(BlockText(patch_doc, FirstDataLine(i) - 1))
        /\ chunk_block_spans[i + 1][1] < FirstDataLine(i) - 1
        /\ Cardinality(ReachedNonblank(patch_doc, FirstDataLine(i))) > context_before

\* the chunks whose span holds block b
ChunksHolding(b) ==
    {i \in ChunkIndices :
        chunk_block_spans[i + 1][1] <= b /\ b <= chunk_block_spans[i + 1][2]}

\* C18: in every state an event handler can find the patch editor in, the span
\* list, the position-span list, the file-path list and the context list have
\* chunk_count entries and are the lists of the current patch text, and every
\* patch line is tagged -1 if it lies in no span and else with the index of
\* the one chunk whose span holds it.
C18_ListsOfCurrentText ==
    /\ Len(chunk_block_spans) = chunk_count
    /\ Len(chunk_pos_spans) = chunk_count
    /\ Len(chunk_file_paths) = chunk_count
    /\ Len(chunk_context_info) = chunk_count
    /\ \E st \in {ScanLoop(patch_doc, context_before, ScanStart)} :
          /\ chunk_block_spans = st.spans
          /\ chunk_file_paths = st.paths
          /\ chunk_context_info = st.ctx
    /\ \A i \in ChunkIndices :
          /\ chunk_pos_spans[i + 1][1]
                 = BlockPosition(patch_doc, chunk_block_spans[i + 1][1])
          /\ chunk_pos_spans[i + 1][2]
                 = BlockPosition(patch_doc, chunk_block_spans[i + 1][2])
                   + Len(BlockText(patch_doc, chunk_block_spans[i + 1][2]))
          /\ GetChunkDetails(i) # None
    /\ GetChunkDetails(chunk_count) = None
    /\ Len(user_state) = Len(patch_doc)
    /\ \A b \in 0..(Len(patch_doc) - 1) :
          IF ChunksHolding(b) = {} THEN user_state[b + 1] = -1
          ELSE ChunksHolding(b) = {user_state[b + 1]}

\* two chunks and a line of neither, after the text was changed: a line of
\* the second chunk and the line outside are tagged apart
C18_Witness ==
    /\ chunk_count = 2
    /\ \E b \in 0..(Len(patch_doc) - 1) : user_state[b + 1] = 1
    /\ \E b \in 0..(Len(patch_doc) - 1) :
          /\ user_state[b + 1] = -1
          /\ \E c \in 0..(b - 1) : user_state[c + 1] = 0

\* the decimal digits, and the value of a run of them
Digits == "0123456789"

IsDigit(c) == \E d \in 1..10 : SubSeq(Digits, d, d) = c

RECURSIVE DigitsValue(_, _, _)
DigitsValue(t, i, acc) ==
    IF i > Len(t) \/ ~IsDigit(SubSeq(t, i, i)) THEN acc
    ELSE DigitsValue(t, i + 1,
                     10 * acc + (CHOOSE d \in 0..9 :
                                     SubSeq(Digits, d + 1, d + 1) = SubSeq(t, i, i)))

\* the new-file start line of a hunk header: the digits after its first "+"
\* that digits follow, and -1 if it has none
HunkNewStart(t) ==
    LET ps == {p \in 1..(Len(t) - 1) :
                  SubSeq(t, p, p) = "+" /\ IsDigit(SubSeq(t, p + 1, p + 1))}
    IN  IF ps = {} THEN -1
        ELSE DigitsValue(t, (CHOOSE p \in ps : \A q \in ps : p <= q) + 1, 0)

\* the hint the claim gives the chunk that starts at block b: the start line
\* of the nearest hunk header before b plus the lines that are not Del lines
\* between that header and b
ExpectedHint(doc, b) ==
    LET hs == {h \in 0..(b - 1) : IsHunkHeader(BlockText(doc, h))}
        h  == CHOOSE x \in hs : \A y \in hs : y <= x
    IN  IF hs = {} THEN -1
        ELSE IF HunkNewStart(BlockText(doc, h)) = -1 THEN -1
        ELSE HunkNewStart(BlockText(doc, h))
             + Cardinality({j \in (h + 1)..(b - 1) : ~IsDel(BlockText(doc, j))})

\* C19 as stated: every chunk carries a target_start_line_hint, the new-file
\* start line of the nearest hunk header before it plus the number of lines
\* that are not Del lines between that header and the chunk's start, and -1
\* when the header has no +<digits> field.
C19_ChunkCarriesStartLineHint ==
    \A i \in ChunkIndices :
        /\ "target_start_line_hint" \in DOMAIN Details(i)
        /\ Details(i).target_start_line_hint
               = ExpectedHint(patch_doc, chunk_block_spans[i + 1][1])

\* the first block of the run of Add lines that ends at block e
AddRunStart(doc, e) ==
    CHOOSE b \in 0..e :
        /\ \A c \in b..e : IsAdd(BlockText(doc, c))
        /\ b > 0 => ~IsAdd(BlockText(doc, b - 1))

\* the first block of the run of Del lines that ends before block fa; fa
\* itself if there is none
DelRunStart(doc, fa) ==
    CHOOSE b \in 0..fa :
        /\ \A c \in b..(fa - 1) : IsDel(BlockText(doc, c))
        /\ b > 0 => ~IsDel(BlockText(doc, b - 1))

\* the lines of blocks lo..hi without their first character
Contents(doc, lo, hi) ==
    IF hi < lo THEN <<>>
    ELSE [k \in 1..(hi - lo + 1) |-> DropChars(BlockText(doc, lo + k - 1), 1)]

\* C21: the added lines of every chunk are not empty and are the contents of
\* one maximal run of Add lines, the one the span ends with; its removed lines
\* are the contents of the maximal run of Del lines that ends where that Add
\* run starts, and are empty if there is none.
C21_RunsOfChunk ==
    \A i \in ChunkIndices :
        LET e  == chunk_block_spans[i + 1][2]
            fa == AddRunStart(patch_doc, e)
            fd == DelRunStart(patch_doc, fa)
        IN  /\ IsAdd(BlockText(patch_doc, e))
            /\ IsValid(patch_doc, e + 1) => ~IsAdd(BlockText(patch_doc, e + 1))
            /\ chunk_block_spans[i + 1][1] <= fd
            /\ Details(i).added_lines # <<>>
            /\ Details(i).added_lines = Contents(patch_doc, fa, e)
            /\ Details(i).removed_lines = Contents(patch_doc, fd, fa - 1)

\* a chunk of two different removed lines and two different added lines
C21_Witness ==
    \E i \in ChunkIndices :
        /\ Details(i).removed_lines = <<"w", "y">>
        /\ Details(i).added_lines = <<"z", "x">>

RECURSIVE ScanIterations(_, _, _, _)
ScanIterations(doc, limit, st, most) ==
    IF most = 0 \/ ~IsValid(doc, st.b) THEN <<>>
    ELSE <<st>> \o Strict(LAMBDA nx : ScanIterations(doc, limit, nx, most - 1),
                          ScanStep(doc, limit, st))

\* the branch of the loop body an iteration takes
IterationKind(doc, limit, st) ==
    LET t == BlockText(doc, st.b)
    IN  IF IsNewFileHeader(t) \/ IsHunkHeader(t) THEN "header"
        ELSE IF ~st.in_hunk THEN "out-of-hunk line"
        ELSE IF IsDel(t) \/ IsAdd(t)
        THEN (IF Len(ScanStep(doc, limit, st).spans) > Len(st.spans)
              THEN "chunk formed" ELSE "Del run without Add run")
        ELSE "other line"

IterationKinds ==
    {"header", "out-of-hunk line", "chunk formed", "Del run without Add run", "other line"}

\* C23: every iteration of the scan loop moves the scan position forward by
\* at least one line and never past the end of the text, so the loop ends
\* after at most as many iterations as the text has lines; the result is a
\* list of zero or more chunks, every list of the same length
C23_ScanAdvances ==
    LET n   == Len(patch_doc)
        its == ScanIterations(patch_doc, context_before, ScanStart, n)
    IN  /\ its # <<>>
        /\ \A k \in 1..Len(its) :
              LET nx == ScanStep(patch_doc, context_before, its[k])
              IN  /\ nx.b >= its[k].b + 1
                  /\ nx.b <= n
                  /\ IterationKind(patch_doc, context_before, its[k]) \in IterationKinds
        /\ ~IsValid(patch_doc, ScanStep(patch_doc, context_before, its[Len(its)]).b)
        /\ chunk_count \in 0..n
        /\ Len(chunk_block_spans) = chunk_count
        /\ Len(chunk_pos_spans) = chunk_count
        /\ Len(chunk_file_paths) = chunk_count
        /\ Len(chunk_context_info) = chunk_count
        /\ Len(user_state) = n

\* a text whose scan takes every branch of the loop body
C23_Witness ==
    LET its == ScanIterations(patch_doc, context_before, ScanStart, Len(patch_doc))
    IN  {IterationKind(patch_doc, context_before, its[k]) : k \in 1..Len(its)}
            = IterationKinds

\* block b stands after a HunkHeader with no NewFileHeader between the two
AfterHunkHeader(doc, b) ==
    \E h \in 0..(b - 1) :
        /\ IsHunkHeader(BlockText(doc, h))
        /\ \A j \in (h + 1)..(b - 1) : ~IsNewFileHeader(BlockText(doc, j))

IsData(text) == IsAdd(text) \/ IsDel(text)

\* C24: an Add or Del line before the first HunkHeader, or after a
\* NewFileHeader and before the next HunkHeader, lies in no chunk (no span
\* holds it and its tag is -1); no span holds a HunkHeader or NewFileHeader
\* line, and every span lies after one HunkHeader with no NewFileHeader
\* between that header and the end of the span.
C24_NoChunkOutsideHunk ==
    /\ \A b \in 0..(Len(patch_doc) - 1) :
          (IsData(BlockText(patch_doc, b)) /\ ~AfterHunkHeader(patch_doc, b))
              => (ChunksHolding(b) = {} /\ user_state[b + 1] = -1)
    /\ \A i \in ChunkIndices :
          LET lo == chunk_block_spans[i + 1][1]
              hi == chunk_block_spans[i + 1][2]
          IN  /\ \A b \in lo..hi :
                    /\ ~IsHunkHeader(BlockText(patch_doc, b))
                    /\ ~IsNewFileHeader(BlockText(patch_doc, b))
              /\ AfterHunkHeader(patch_doc, lo)
              /\ AfterHunkHeader(patch_doc, hi)

\* a text with a chunk, a data line before the first HunkHeader and a data
\* line that follows a NewFileHeader standing after a HunkHeader
C24_Witness ==
    /\ chunk_count >= 1
    /\ \E b \in 0..(Len(patch_doc) - 1) :
          /\ IsData(BlockText(patch_doc, b))
          /\ \A h \in 0..(b - 1) : ~IsHunkHeader(BlockText(patch_doc, h))
    /\ \E b \in 0..(Len(patch_doc) - 1) :
          /\ IsData(BlockText(patch_doc, b))
          /\ ~AfterHunkHeader(patch_doc, b)
          /\ \E h \in 0..(b - 1) : IsHunkHeader(BlockText(patch_doc, h))

(***************************************************************************)
(* Properties of the locator, the evaluator and the applicator             *)
(***************************************************************************)
\* the evaluator has returned its decision on ev_lines and ev_details
EvEvaluated == ev_pc \in {"evaluated", "apply", "applied", "reevaluated"}

\* the three decisions, as the tuple (applicable, already_applied, start, len)
Unapplied(d) == d.applicable /\ ~d.already_applied /\ d.apply_start_idx # None
AlreadyApplied(d) == ~d.applicable /\ d.already_applied /\ d.apply_start_idx = None
Unresolvable(d) == ~d.applicable /\ ~d.already_applied /\ d.apply_start_idx = None

\* the chunk has context lines and the locator found them
Located == ev_details.context_lines # <<>> /\ ev_match # None

\* 0-based start of the matched context plus the number of context lines
BaseIndex == (ev_match[1] - 1) + Len(ev_details.context_lines)

\* seq stands in lines at 0-based index i
OccursAt(lines, seq, i) ==
    /\ i >= 0
    /\ i + Len(seq) <= Len(lines)
    /\ \A k \in 1..Len(seq) : lines[i + k] = seq[k]

\* seq stands in lines at some index no more than w away from base
OccursNear(lines, seq, base, w) ==
    \E i \in (base - w)..(base + w) : OccursAt(lines, seq, i)

\* C3 as stated: whenever locate-and-evaluate returned Unapplied{s} for a chunk
\* (of added lines, as the chunk builder makes them) and the chunk was applied
\* at s, evaluating the same chunk against the new lines returns AlreadyApplied.
C3_ApplyRoundTrip ==
    (ev_pc = "reevaluated" /\ ev_details.added_lines # <<>>)
        => AlreadyApplied(ev_decision2)

\* C6: for a chunk with removed lines whose context is located and which is
\* not AlreadyApplied, the decision is Unapplied when the removed lines stand
\* exactly at some index within Window of base_index, at an index where they
\* stand, and Unresolvable when they stand at no such index.
C6_DriftTolerance ==
    (EvEvaluated /\ Located /\ ev_details.removed_lines # <<>>
       /\ ~AlreadyApplied(ev_decision))
        => IF OccursNear(ev_lines, ev_details.removed_lines, BaseIndex, Window)
           THEN /\ Unapplied(ev_decision)
                /\ OccursAt(ev_lines, ev_details.removed_lines,
                            ev_decision.apply_start_idx[1])
           ELSE Unresolvable(ev_decision)

\* the removed lines found exactly Window lines away from base_index
C6_Witness ==
    /\ EvEvaluated /\ Located /\ ev_details.removed_lines # <<>>
    /\ Unapplied(ev_decision)
    /\ ev_decision.apply_start_idx[1] - BaseIndex \in {Window, -Window}
    /\ OccursAt(ev_lines, ev_details.removed_lines, ev_decision.apply_start_idx[1])

\* C26: for a chunk with removed lines that is decided Unapplied, the start
\* index is base_index when the removed lines stand exactly at base_index;
\* otherwise it is the lowest index of
\* max(0, base_index - 30)..min(n - len(removed), base_index + 30) at which the
\* removed lines stand exactly.
C26_StartIndexChoice ==
    (EvEvaluated /\ Located /\ ev_details.removed_lines # <<>>
       /\ Unapplied(ev_decision))
        => LET removed == ev_details.removed_lines
               s  == ev_decision.apply_start_idx[1]
               lo == Max2(0, BaseIndex - Window)
               hi == Min2(Len(ev_lines) - Len(removed), BaseIndex + Window)
           IN  IF OccursAt(ev_lines, removed, BaseIndex)
               THEN s = BaseIndex
               ELSE /\ s \in lo..hi
                    /\ OccursAt(ev_lines, removed, s)
                    /\ \A i \in lo..(s - 1) : ~OccursAt(ev_lines, removed, i)

\* the removed lines stand at base_index and at a lower index of the window
\* too, and base_index is the start index
C26_Witness ==
    /\ EvEvaluated /\ Located /\ ev_details.removed_lines # <<>>
    /\ Unapplied(ev_decision)
    /\ ev_decision.apply_start_idx = Some(BaseIndex)
    /\ \E i \in Max2(0, BaseIndex - Window)..(BaseIndex - 1) :
          OccursAt(ev_lines, ev_details.removed_lines, i)

\* C7: the decision is AlreadyApplied exactly when the context is located, the
\* added lines are non-empty and equal the slice at base_index, and the
\* removed lines, if any, stand at no index within Window of base_index; with
\* located context every other decision is Unapplied or Unresolvable.
C7_AlreadyAppliedExactly ==
    EvEvaluated =>
        /\ AlreadyApplied(ev_decision)
             <=> /\ Located
                 /\ ev_details.added_lines # <<>>
                 /\ OccursAt(ev_lines, ev_details.added_lines, BaseIndex)
                 /\ ev_details.removed_lines # <<>>
                      => ~OccursNear(ev_lines, ev_details.removed_lines, BaseIndex, Window)
        /\ ev_decision.already_applied => AlreadyApplied(ev_decision)
        /\ (Located /\ ~AlreadyApplied(ev_decision))
             => Unapplied(ev_decision) \/ Unresolvable(ev_decision)

\* AlreadyApplied although the removed lines stand in the target, just beyond
\* the window
C7_Witness ==
    /\ EvEvaluated /\ AlreadyApplied(ev_decision)
    /\ ev_details.removed_lines # <<>>
    /\ OccursNear(ev_lines, ev_details.removed_lines, BaseIndex, Window + 1)

\* C8: a chunk without context lines, or one whose context the locator does
\* not find, is Unresolvable, wherever its removed and added lines stand.
C8_UnresolvableWithoutContext ==
    (EvEvaluated /\ (ev_details.context_lines = <<>> \/ ev_match = None))
        => Unresolvable(ev_decision) /\ ev_decision.highlight_len = 0

\* context lines the locator did not find, of a chunk whose removed lines
\* stand in the target and whose added lines stand there too
C8_Witness ==
    /\ EvEvaluated /\ ev_details.context_lines # <<>> /\ ev_match = None
    /\ ev_details.removed_lines # <<>>
    /\ \E i \in 0..Len(ev_lines) : OccursAt(ev_lines, ev_details.removed_lines, i)
    /\ ev_details.added_lines # <<>>
    /\ \E i \in 0..Len(ev_lines) : OccursAt(ev_lines, ev_details.added_lines, i)
    /\ Unresolvable(ev_decision)

\* C16: whenever the evaluator returns Unapplied{s} for a target of n lines,
\* 0 <= s, s + len(removed_lines) <= n and the target lines from s on equal
\* the removed lines; and the search for the removed lines about base_index
\* addresses no index outside 0..n-1.
C16_NoOutOfRangeSpan ==
    EvEvaluated =>
        /\ Unapplied(ev_decision) =>
             /\ 0 <= ev_decision.apply_start_idx[1]
             /\ ev_decision.apply_start_idx[1] + Len(ev_details.removed_lines)
                    <= Len(ev_lines)
             /\ \A k \in 1..Len(ev_details.removed_lines) :
                    ev_lines[ev_decision.apply_start_idx[1] + k]
                        = ev_details.removed_lines[k]
        /\ Located =>
             FindExactSequenceNearReads(ev_lines, ev_details.removed_lines,
                                        BaseIndex, Window)
                 \subseteq 0..(Len(ev_lines) - 1)

\* the search ran to the last line of a target that ends inside the window,
\* and from the first line of a target that starts inside it
C16_Witness ==
    /\ EvEvaluated /\ Located /\ ev_details.removed_lines # <<>>
    /\ BaseIndex + Window > Len(ev_lines) - Len(ev_details.removed_lines)
    /\ BaseIndex - Window < 0
    /\ ~SliceEquals(ev_lines, BaseIndex, ev_details.removed_lines)
    /\ {0, Len(ev_lines) - 1}
           \subseteq FindExactSequenceNearReads(ev_lines, ev_details.removed_lines,
                                                BaseIndex, Window)
    /\ Unapplied(ev_decision)
    /\ ev_decision.apply_start_idx[1] + Len(ev_details.removed_lines) = Len(ev_lines)

\* C20: a chunk without removed lines (its added lines are not empty, as the
\* chunk builder makes them) whose context is located is never Unresolvable:
\* it is AlreadyApplied if the added lines equal the target lines at
\* base_index, and else Unapplied at base_index, the 0-based start of the
\* matched context plus the number of context lines.
C20_PureInsertion ==
    (EvEvaluated /\ Located /\ ev_details.removed_lines = <<>>
       /\ ev_details.added_lines # <<>>)
        => /\ ~Unresolvable(ev_decision)
           /\ IF OccursAt(ev_lines, ev_details.added_lines, BaseIndex)
              THEN AlreadyApplied(ev_decision)
              ELSE /\ Unapplied(ev_decision)
                   /\ ev_decision.apply_start_idx = Some(BaseIndex)

\* an insertion at the end of the target, after context that is not its first
\* line
C20_Witness ==
    /\ EvEvaluated /\ Located /\ ev_details.removed_lines = <<>>
    /\ ev_details.added_lines # <<>>
    /\ Unapplied(ev_decision)
    /\ ev_decision.apply_start_idx = Some(BaseIndex)
    /\ BaseIndex = Len(ev_lines)
    /\ ev_match[1] > 1

\* the 0-based starts of the windows of |query| lines of the target
WindowStarts == 0..(Len(ev_lines) - Len(ev_details.context_lines))

\* the score of the window at i under the scoring function of the run
WindowScore(i) ==
    Score(ev_scorer, JoinLines(ev_details.context_lines),
          JoinLines([k \in 1..Len(ev_details.context_lines) |-> ev_lines[i + k]]))

\* every window start with its score
WindowScores == {<<i, WindowScore(i)>> : i \in WindowStarts}

\* the windows of maximum score among ws
BestWindows(ws) == {p \in ws : \A o \in ws : o[2] <= p[2]}

\* the lowest of the windows of maximum score among ws
FirstBest(ws) ==
    CHOOSE p \in BestWindows(ws) : \A o \in BestWindows(ws) : p[1] <= o[1]

\* C9: the locator returns none if the query or the target is empty (or the
\* target has no window of |query| lines); otherwise the 1-based start line of
\* the lowest window of maximum score if that score is >= min_score, and none
\* if it is below.
C9_LocatorReturnsFirstBest ==
    ev_pc = "located" =>
        IF ev_details.context_lines = <<>> \/ ev_lines = <<>> \/ WindowStarts = {}
        THEN ev_match = None
        ELSE \A ws \in {WindowScores} :
                IF FirstBest(ws)[2] >= ev_min_score
                THEN ev_match = Some(FirstBest(ws)[1] + 1)
                ELSE ev_match = None

\* several windows share the maximum score, which reaches min_score without
\* being 100, and the first of them is not the first window
C9_Witness ==
    /\ ev_pc = "located"
    /\ ev_match # None
    /\ ev_match[1] > 1
    /\ \E ws \in {WindowScores} :
          /\ Cardinality(BestWindows(ws)) > 1
          /\ FirstBest(ws) = <<ev_match[1] - 1, WindowScore(ev_match[1] - 1)>>
          /\ FirstBest(ws)[2] < 100

\* C28: a location L the locator returns has 1 <= L <= len(target) -
\* len(query) + 1, so base_index = (L - 1) + len(query) <= len(target); for a
\* query of more lines than the target the locator returns none (min_score
\* in 0..100).
C28_LocationInsideTarget ==
    (ev_pc = "located" /\ ev_min_score \in 0..100) =>
        LET n == Len(ev_lines)
            m == Len(ev_details.context_lines)
        IN  /\ ev_match # None =>
                  /\ 1 <= ev_match[1]
                  /\ ev_match[1] <= n - m + 1
                  /\ (ev_match[1] - 1) + m <= n
                  /\ \A k \in 1..m : (ev_match[1] - 1) + k \in DOMAIN ev_lines
            /\ m > n => ev_match = None

\* the location of the last window of a target, which is not its first
C28_Witness ==
    /\ ev_pc = "located"
    /\ ev_match # None
    /\ ev_match[1] > 1
    /\ (ev_match[1] - 1) + Len(ev_details.context_lines) = Len(ev_lines)
    /\ Len(ev_details.context_lines) = MaxContextLen

\* the first index at which the query stands exactly in the target
ExactStarts ==
    {i \in WindowStarts : OccursAt(ev_lines, ev_details.context_lines, i)}

\* the scoring function of the run gives 100 to equal texts and no more than
\* 100 to any window
ScoresEqualHighest ==
    /\ \A i \in WindowStarts : WindowScore(i) <= 100
    /\ \A i \in ExactStarts : WindowScore(i) = 100

\* C29: under a scoring function that gives equal texts 100 as its highest
\* value, and min_score <= 100, a (non-empty) query that stands exactly in the
\* target is located, at a line not after its first exact occurrence.
C29_ExactOccurrenceLocated ==
    (/\ ev_pc = "located"
     /\ ev_details.context_lines # <<>>
     /\ ev_min_score <= 100
     /\ ExactStarts # {}
     /\ ScoresEqualHighest)
        => /\ ev_match # None
           /\ \A i \in ExactStarts : ev_match[1] <= i + 1

\* min_score is 100 and the query stands exactly in the target, after a window
\* that scores 100 without being equal to it: the location is that window
C29_Witness ==
    /\ ev_pc = "located"
    /\ ev_details.context_lines # <<>>
    /\ ev_min_score = 100
    /\ ExactStarts # {}
    /\ ScoresEqualHighest
    /\ ev_match # None
    /\ \A i \in ExactStarts : ev_match[1] < i + 1

\* C10: the applicator returns target[0:s] + added + target[s+len(removed):]
\* when removed is non-empty and target[0:s] + added + target[s:] when it is
\* empty; for s + len(removed) <= len(target) the result has
\* len(target) - len(removed) + len(added) lines.
C10_ApplyAtSplices ==
    ev_pc = "applied" =>
        LET n    == Len(ev_lines)
            s    == ev_start
            r    == ev_details.removed_lines
            a    == ev_details.added_lines
            from == Min2(n, IF r # <<>> THEN s + Len(r) ELSE s)
            pre  == [k \in 1..Min2(s, n) |-> ev_lines[k]]
            suf  == [k \in 1..(n - from) |-> ev_lines[from + k]]
        IN  /\ ev_new_lines = pre \o a \o suf
            /\ s + Len(r) <= n => Len(ev_new_lines) = n - Len(r) + Len(a)

\* removed lines replaced by added lines in the middle of the target
C10_Witness ==
    /\ ev_pc = "applied"
    /\ ev_details.removed_lines # <<>> /\ ev_details.added_lines # <<>>
    /\ ev_start > 0
    /\ ev_start + Len(ev_details.removed_lines) < Len(ev_lines)
    /\ Len(ev_details.removed_lines) # Len(ev_details.added_lines)

(***************************************************************************)
(* Properties of the application (Spec)                                    *)
(***************************************************************************)
\* C4 as stated: an apply never uses a start index that was computed before
\* an edit of the target buffer, and with the chunks as they were evaluated the
\* start index it uses is the one the evaluator returns for the buffer as it
\* is when the apply runs.
C4_StartIndexOfCurrentBuffer ==
    apply_log # None =>
        /\ ~apply_log[1].edited
        /\ ~apply_log[1].rebuilt => apply_log[1].fresh_start = Some(apply_log[1].start)

\* C5 as stated: an apply never uses a start index that was evaluated before
\* the chunk list was rebuilt, together with the removed and added lines of
\* the chunk the rebuilt list holds at the hovered index.
C5_StartIndexOfCurrentChunks ==
    apply_log # None => ~apply_log[1].rebuilt

\* the decision of the evaluator for the hovered chunk on the buffer text
FreshDecision(text) ==
    LET details == GetChunkDetails(hover_chunk_idx[1])[1]
        lines   == SplitLines(text)
    IN  EvaluateChunkApplicability(
            lines, details, FindBestMatch(lines, details.context_lines, MinScoreUsed))

C17_DebounceCoalescing ==
    /\ [](burst # None =>
            IF burst[1].edits = 0
            THEN ~timer_active /\ burst[1].reevals = 0
            ELSE \/ timer_active /\ burst[1].reevals = 0
                 \/ ~timer_active /\ burst[1].reevals = 1)
    /\ (burst # None /\ timer_active)
           ~> (~timer_active /\ burst[1].reevals = 1)

\* a burst of two or more text changes, then the one re-evaluation of the
\* hovered chunk against the buffer as the last of them left it
C17_Witness ==
    /\ burst # None
    /\ burst[1].edits >= 2
    /\ burst[1].reevals = 1
    /\ ~timer_active
    /\ hover_chunk_idx # None
    /\ GetChunkDetails(hover_chunk_idx[1]) # None
    /\ ~OtherFile(MW, GetChunkDetails(hover_chunk_idx[1])[1])
    /\ hover_apply_start_idx = FreshDecision(file_text).apply_start_idx


\* a step in which the patch editor reports the hover of a chunk: the chunk
\* under the cursor is another one than before
HoverOfChunk == last_hover_chunk' # None /\ last_hover_chunk' # last_hover_chunk

\* the decision of the last evaluation, as the hover fields hold it
HoverDecision ==
    <<hover_applicable, hover_already_applied, hover_apply_start_idx, hover_highlight_len>>

\* C25: a hover of a chunk changes the text and the recorded file of the
\* buffer only if the text was empty and no file was recorded; if a file is
\* recorded and it is not the chunk's file, the hover leaves the apply button
\* disabled and runs no evaluation (the decision fields stay as they were).
C25_HoverKeepsLoadedBuffer ==
    [][ HoverOfChunk =>
          LET idx       == last_hover_chunk'[1]
              full_path == PathJoin(Strip(root_dir), ToSlashes(chunk_file_paths[idx + 1]))
          IN  /\ ~(file_text = "" /\ current_file = None)
                    => (file_text' = file_text /\ current_file' = current_file)
              /\ (current_file # None /\ current_file[1] # full_path)
                    => /\ ~apply_btn_enabled'
                       /\ HoverDecision' = HoverDecision
                       /\ edited_since_eval' = edited_since_eval
                       /\ rebuilt_since_eval' = rebuilt_since_eval ]_vars

\* the buffer holds the text of file f, and the chunk of file g was hovered
\* last: the button is disabled and the buffer is that of f
C25_Witness ==
    /\ last_hover_chunk = Some(1)
    /\ chunk_count = 2
    /\ chunk_file_paths[2] = "g"
    /\ hover_chunk_idx = Some(1)
    /\ hover_chunk_file = Some("g")
    /\ current_file = Some("/r/f")
    /\ file_text = Disk["/r/f"]
    /\ hover_applicable
    /\ ~apply_btn_enabled

\* the chunk the hover fields name
HoveredChunkPath == chunk_file_paths[hover_chunk_idx[1] + 1]

\* C27 as stated: an apply request (context menu or button) for a chunk whose
\* file_path is empty leaves the text of the target buffer as it was,
\* whichever file is loaded.
C27_PathlessChunkNeverApplied ==
    (/\ apply_request # None
     /\ hover_chunk_idx # None
     /\ hover_chunk_idx[1] \in ChunkIndices
     /\ HoveredChunkPath = "")
        => file_text = apply_request[1].text_before

\* no chunk is selected: the hover fields are cleared and the button is off
NoChunkSelected ==
    /\ hover_chunk_idx = None
    /\ hover_chunk_file = None
    /\ hover_context_lines = <<>>
    /\ ~hover_applicable
    /\ ~hover_already_applied
    /\ hover_apply_start_idx = None
    /\ ~apply_btn_enabled

\* a step in which the patch editor reports that the chunk under the cursor was
\* left (chunkHovered with index -1)
LeaveOfChunk == last_hover_chunk # None /\ last_hover_chunk' = None

\* a step that handles an apply request of the context menu or the button
ApplyRequest == apply_request' # None

\* a step in which the debounce timer expires
TimerExpiry == timer_active /\ ~timer_active'

\* C30: a leave event clears the hover index, file, context lines, applicable
\* flag, already-applied flag and start index and disables the apply button;
\* they stay so over every step that is neither a hover of a chunk nor an
\* apply request of the context menu, and while they are so a request of the
\* apply button and an expiry of the debounce timer leave the text of the
\* target buffer as it is.
C30_NoChunkAfterLeave ==
    /\ [][LeaveOfChunk => NoChunkSelected']_vars
    /\ [][(NoChunkSelected /\ ~HoverOfChunk /\ ~ApplyRequest) => NoChunkSelected']_vars
    /\ [][(NoChunkSelected /\ TimerExpiry) => file_text' = file_text]_vars
    /\ [](NoChunkSelected =>
             /\ ApplyHoveredChunkIfPossible(MW).file_text = file_text
             /\ DebounceTimeout(MW).file_text = file_text)

\* the chunk of the loaded file f was left, the buffer was edited since and
\* the debounce timer runs
C30_Witness ==
    /\ NoChunkSelected
    /\ last_hover_chunk = None
    /\ chunk_count >= 1
    /\ current_file = Some("/r/f")
    /\ file_text # Disk["/r/f"]
    /\ timer_active

====
